---- MODULE Spec2Model ----
(***************************************************************************)
(* Sparse operator family of pytensor (pytensor/sparse/basic.py): numeric  *)
(* evaluation (perform), node construction (make_node) and gradient rules  *)
(* (grad) of the operators over csr/csc matrices.                          *)
(*                                                                         *)
(* Conventions.  A Python list / ndarray is a TLA+ sequence; Python index  *)
(* k is TLA+ index k+1 (see At).  A scipy csr/csc matrix is the record     *)
(* [format, data, indices, indptr, shape] of its attributes.  An output    *)
(* storage cell (the one-element list `out` of perform) is a sequence:     *)
(* <<>> while nothing has been written, <<v>> once out[0] = v ran.  An     *)
(* exception is a record [type, msg]; NoErr stands for "nothing raised".   *)
(***************************************************************************)
EXTENDS Integers, Sequences, FiniteSets, TLC

VARIABLES pc, inp, loc, out, err

vars == <<pc, inp, loc, out, err>>

(***************************************************************************)
(* Bounds of the explored inputs.                                          *)
(***************************************************************************)
\* largest number of rows / columns of an enumerated matrix
MaxDim == 2
\* largest number of stored entries of an enumerated sparse matrix
MaxNnz == 2
\* data vectors are DataVec(n, s) for s in 0..MaxSeed
MaxSeed == 1

(***************************************************************************)
(* Python / numpy primitives.                                              *)
(***************************************************************************)
\* x[k] for a 0-based Python index k
At(s, k) == s[k + 1]

NoErr == [type |-> "None", msg |-> "", args |-> <<>>]

Raise(t, m) == [type |-> t, msg |-> m, args |-> <<>>]

\* raise t(m, args)
RaiseWith(t, m, a) == [type |-> t, msg |-> m, args |-> a]

(***************************************************************************)
(* Integers wider than 32 bits: the index, pointer and shape               *)
(* values of a scipy matrix are int64 / Python ints, so the vectors that   *)
(* CSMProperties casts to int32 hold them as <<hi, lo>>, standing for      *)
(* hi * 2^16 + lo with 0 <= lo < 2^16.  int32 is the range -2^15 <= hi <   *)
(* 2^15.                                                                   *)
(***************************************************************************)
WInt(n) == <<n \div (2^16), n % (2^16)>>

\* the plain integer of a wide integer that is small enough to have one
WVal(w) == w[1] * (2^16) + w[2]

WLess(v, w) == v[1] < w[1] \/ (v[1] = w[1] /\ v[2] < w[2])

FitsInt32(w) == w[1] >= -(2^15) /\ w[1] < 2^15

\* C cast of an integer to int32 (two's complement wrap-around)
ToInt32(w) == <<((w[1] + 2^15) % (2^16)) - 2^15, w[2]>>

\* np.asarray(a, dtype="int32") for an integer ndarray a: element-wise cast
asarray_int32(a) == [k \in 1..Len(a) |-> ToInt32(a[k])]

WideSeq(a) == [k \in 1..Len(a) |-> WInt(a[k])]

RECURSIVE SeqSum(_)
SeqSum(s) == IF s = <<>> THEN 0 ELSE s[1] + SeqSum(Tail(s))

Abs(v) == IF v < 0 THEN -v ELSE v

(***************************************************************************)
(* scipy.sparse csr/csc matrices.                                          *)
(***************************************************************************)
sparse_formats == {"csc", "csr"}

\* index of the compressed (major) axis in shape: rows for csr, columns for csc
MajorAxis(format) == IF format = "csr" THEN 1 ELSE 2

MinorAxis(format) == IF format = "csr" THEN 2 ELSE 1

Nnz(m) == Len(m.data)

\* the entries stored in major slice i (0-based): positions ptr of data
SliceRange(indptr, i) == (At(indptr, i) + 1)..At(indptr, i + 1)

\* dense value of position (r, c), 0-based: duplicates of a position add up
RECURSIVE EntrySum(_, _, _, _)
EntrySum(m, i, j, k) ==
    IF k > At(m.indptr, i + 1) THEN 0
    ELSE (IF m.indices[k] = j THEN m.data[k] ELSE 0) + EntrySum(m, i, j, k + 1)

\* a sequence given by a rule, held as the array of its values
Array(s) == s \o <<>>

\* a dense matrix is the sequence of its rows; d[i, j] for 0-based i and j
At2(d, i, j) == d[i + 1][j + 1]

toarray(m) ==
    Array([r \in 1..m.shape[1] |->
        Array([c \in 1..m.shape[2] |->
            IF m.format = "csr"
            THEN EntrySum(m, r - 1, c - 1, At(m.indptr, r - 1) + 1)
            ELSE EntrySum(m, c - 1, r - 1, At(m.indptr, c - 1) + 1)])])

\* (r, c) is a stored position of m
Stored(m, r, c) ==
    LET i == IF m.format = "csr" THEN r ELSE c
        j == IF m.format = "csr" THEN c ELSE r
    IN  \E k \in SliceRange(m.indptr, i) : m.indices[k] = j

\* scipy's constructor csr_matrix((data, indices, indptr), shape, copy=False)
\* on int vectors held as wide integers: check_shape, check_format(
\* full_check=False) and prune; the arrays are taken as given (no sorting, no
\* merging of duplicates)
scipy_csx_matrix(format, data, indices, indptr, shape) ==
    LET major == shape[MajorAxis(format)]
        last == indptr[Len(indptr)]
    IN  IF \E d \in 1..Len(shape) : WLess(shape[d], WInt(0))
        THEN [err |-> Raise("ValueError", "'shape' elements cannot be negative"),
              val |-> <<>>]
        ELSE IF WInt(Len(indptr) - 1) # major
        THEN [err |-> Raise("ValueError", "index pointer size should be major + 1"),
              val |-> <<>>]
        ELSE IF indptr[1] # WInt(0)
        THEN [err |-> Raise("ValueError", "index pointer should start with 0"),
              val |-> <<>>]
        ELSE IF WLess(WInt(Len(indices)), last)
        THEN [err |-> Raise("ValueError", "Last value of index pointer should be less than the size of index and data arrays"),
              val |-> <<>>]
        ELSE [err |-> NoErr,
              val |-> <<[format |-> format,
                         data |-> SubSeq(data, 1, WVal(last)),
                         indices |-> SubSeq(indices, 1, WVal(last)),
                         indptr |-> indptr,
                         shape |-> shape]>>]

(***************************************************************************)
(* Enumerated inputs.                                                      *)
(***************************************************************************)
DataVec(n, s) == [k \in 1..n |-> (((k + s) * (s + 1)) % 5) - 1]

\* pointer vectors of a matrix with `major` slices and at most MaxNnz entries
IndptrSet(major) ==
    {p \in [1..(major + 1) -> 0..MaxNnz] :
        p[1] = 0 /\ \A i \in 1..major : p[i] <= p[i + 1]}

SmallShapes == {<<r, c>> : r \in 1..MaxDim, c \in 1..MaxDim}

\* every csr/csc matrix of at most MaxDim rows and columns and at most MaxNnz
\* stored entries (unsorted and duplicated minor indices included), with the
\* data vectors DataVec(nnz, s)
SmallMatrices ==
    {[format |-> t[1], shape |-> t[2], indptr |-> t[3], indices |-> t[4],
      data |-> DataVec(Len(t[4]), t[5])] :
        t \in {u \in sparse_formats \X SmallShapes
                    \X (UNION {IndptrSet(major) : major \in 1..MaxDim})
                    \X (UNION {[1..n -> 0..(MaxDim - 1)] : n \in 0..MaxNnz})
                    \X (0..MaxSeed) :
                /\ Len(u[3]) = u[2][MajorAxis(u[1])] + 1
                /\ Len(u[4]) = u[3][Len(u[3])]
                /\ \A k \in 1..Len(u[4]) : u[4][k] < u[2][MinorAxis(u[1])]}}

\* a matrix with its index, pointer and shape vectors as wide integers
WideMatrix(m) ==
    [m EXCEPT !.indices = WideSeq(@), !.indptr = WideSeq(@), !.shape = WideSeq(@)]

\* a dimension that numpy's int32 cannot hold: 2^31 + 1
BigDim == <<2^15, 1>>

\* m with its minor dimension stretched to BigDim; the entries of the last
\* minor index move to the new last index BigDim - 1.  The major dimension
\* stays small, since indptr has one element per major slice
Stretch(m) ==
    LET minor == m.shape[MinorAxis(m.format)]
    IN  [format |-> m.format,
         data |-> m.data,
         indices |-> [k \in 1..Len(m.indices) |->
                        IF m.indices[k] = minor - 1 THEN <<2^15, 0>>
                        ELSE WInt(m.indices[k])],
         indptr |-> WideSeq(m.indptr),
         shape |-> [d \in 1..2 |-> IF d = MinorAxis(m.format) THEN BigDim
                                   ELSE WInt(m.shape[d])]]

CSMMatrices == {WideMatrix(m) : m \in SmallMatrices} \cup {Stretch(m) : m \in SmallMatrices}

(***************************************************************************)
(* CSMProperties and CSM.                                                  *)
(***************************************************************************)
\* np.asarray(t, dtype="int32") for a tuple t of Python ints (csm.shape): an
\* element int32 cannot hold either raises OverflowError or wraps around,
\* depending on the numpy release; `strict` selects the raising behaviour
asarray_int32_tuple(t, strict) ==
    IF strict /\ \E k \in 1..Len(t) : ~FitsInt32(t[k])
    THEN [err |-> Raise("OverflowError", "Python integer out of bounds for int32"),
          val |-> <<>>]
    ELSE [err |-> NoErr, val |-> <<asarray_int32(t)>>]

\* CSMProperties.perform with the pointer output filled from csm.indices
CSMProperties_perform_mixed(csm, strict) ==
    LET shp == asarray_int32_tuple(csm.shape, strict)
    IN  [err |-> shp.err,
         val |-> << <<csm.data>>,
                    <<asarray_int32(csm.indices)>>,
                    <<asarray_int32(csm.indices)>>,
                    shp.val >>]

\* CSMProperties.perform: the four output cells after the call, and what it raised
CSMProperties_perform(csm, strict) ==
    LET shp == asarray_int32_tuple(csm.shape, strict)
    IN  [err |-> shp.err,
         val |-> << <<csm.data>>,
                    <<asarray_int32(csm.indices)>>,
                    <<asarray_int32(csm.indptr)>>,
                    shp.val >>]

ShapeMsg == "Shape should be an array of length 2"

DataMsg == "Data must have the same number of elements as indices"

\* CSM.perform with its two checks in the other order
CSM_perform_datafirst(format, data, indices, indptr, _shape) ==
    IF Len(data) # Len(indices)
    THEN [err |-> Raise("ValueError", DataMsg), val |-> <<>>]
    ELSE IF Len(_shape) # 2
    THEN [err |-> Raise("ValueError", ShapeMsg), val |-> <<>>]
    ELSE scipy_csx_matrix(format, data, indices, indptr, _shape)

\* CSM.perform
CSM_perform(format, data, indices, indptr, _shape) ==
    IF Len(_shape) # 2
    THEN [err |-> Raise("ValueError", ShapeMsg), val |-> <<>>]
    ELSE IF Len(data) # Len(indices)
    THEN [err |-> Raise("ValueError", DataMsg), val |-> <<>>]
    ELSE scipy_csx_matrix(format, data, indices, indptr, _shape)

\* the input vectors handed to a CSM node: the parts of a matrix, the shape
\* vector possibly of another length, the data vector possibly longer or shorter
ShapeVariant(sh, v) ==
    IF v = "pair" THEN sh
    ELSE IF v = "single" THEN <<sh[1]>>
    ELSE IF v = "triple" THEN Append(sh, WInt(1))
    ELSE <<>>

DataVariant(d, v) ==
    IF v = "longer" THEN Append(d, 1)
    ELSE IF v = "shorter" /\ d # <<>> THEN SubSeq(d, 1, Len(d) - 1)
    ELSE d

CSMInputs ==
    {[csm |-> m, format |-> m.format, data |-> DataVariant(m.data, dv),
      indices |-> m.indices, indptr |-> m.indptr, shape |-> ShapeVariant(m.shape, sv)] :
        m \in CSMMatrices, dv \in {"same", "longer", "shorter"},
        sv \in {"pair", "single", "triple", "empty"}}

Init ==
    /\ pc = "start"
    /\ inp \in CSMInputs
    /\ loc = <<>>
    /\ out = <<>>
    /\ err = NoErr

\* the linker evaluates a CSMProperties node on inp.csm
CSMPropertiesEval ==
    /\ pc = "start"
    /\ \E strict \in BOOLEAN :
        LET r == CSMProperties_perform(inp.csm, strict)
        IN  /\ loc' = r.val
            /\ err' = r.err
            /\ pc' = IF r.err = NoErr THEN "extracted" ELSE "extract_failed"
    /\ UNCHANGED <<inp, out>>

\* the linker evaluates CSM(format of inp.csm) on the four extracted arrays
CSMEvalExtracted ==
    /\ pc = "extracted"
    /\ LET r == CSM_perform(inp.csm.format, loc[1][1], loc[2][1], loc[3][1], loc[4][1])
       IN  /\ out' = r.val
           /\ err' = r.err
    /\ pc' = "roundtrip"
    /\ UNCHANGED <<inp, loc>>

\* the linker evaluates a CSM node on the input vectors of inp
CSMEval ==
    /\ pc = "start"
    /\ LET r == CSM_perform(inp.format, inp.data, inp.indices, inp.indptr, inp.shape)
       IN  /\ out' = r.val
           /\ err' = r.err
    /\ pc' = "built"
    /\ UNCHANGED <<inp, loc>>

Next == CSMPropertiesEval \/ CSMEvalExtracted \/ CSMEval

Spec == Init /\ [][Next]_vars

(***************************************************************************)
(* Claims on CSMProperties / CSM (specification Spec).                     *)
(***************************************************************************)
SameParts(a, b) ==
    /\ a.data = b.data
    /\ a.indices = b.indices
    /\ a.indptr = b.indptr
    /\ a.shape = b.shape

\* every index, pointer and dimension of m is an int32 value
AllFitInt32(m) ==
    /\ \A k \in 1..Len(m.indices) : FitsInt32(m.indices[k])
    /\ \A k \in 1..Len(m.indptr) : FitsInt32(m.indptr[k])
    /\ \A k \in 1..Len(m.shape) : FitsInt32(m.shape[k])

RoundTripEnded == pc \in {"roundtrip", "extract_failed"}

\* C1 as stated: for every csr/csc matrix M, CSMProperties followed by CSM of
\* M's format yields a matrix with M's data, indices, indptr and shape.
C1_RoundTripAnyMatrix ==
    RoundTripEnded => (out # <<>> /\ SameParts(out[1], inp.csm))

\* C1 as amended: the round trip returns M's data, indices, indptr and shape
\* for every M whose indices, pointers and dimensions all fit in int32 (the
\* dtype CSMProperties casts them to).
C1_RoundTripInt32 ==
    (RoundTripEnded /\ AllFitInt32(inp.csm)) =>
        (pc = "roundtrip" /\ err = NoErr /\ out # <<>> /\ SameParts(out[1], inp.csm))

C1_Witness ==
    /\ pc = "roundtrip"
    /\ AllFitInt32(inp.csm)
    /\ Nnz(inp.csm) = MaxNnz
    /\ out = <<inp.csm>>

CSMMalformed == Len(inp.shape) # 2 \/ Len(inp.data) # Len(inp.indices)

\* C5: CSM.perform raises ValueError and leaves its output cell unwritten
\* whenever the shape vector has not exactly 2 elements or data and indices
\* differ in length; the shape check comes first (a wrong shape length is what
\* is reported even when data and indices differ too).
C5_CSMRejectsMalformed ==
    (pc = "built" /\ CSMMalformed) =>
        /\ err.type = "ValueError"
        /\ out = <<>>
        /\ err.msg = (IF Len(inp.shape) # 2 THEN ShapeMsg ELSE DataMsg)

C5_Witness ==
    /\ pc = "built"
    /\ Len(inp.shape) # 2
    /\ Len(inp.data) # Len(inp.indices)
    /\ err = Raise("ValueError", ShapeMsg)
    /\ out = <<>>

(***************************************************************************)
(* CSMGrad: the gradient of CSM with respect to its data vector.           *)
(***************************************************************************)
zeros(n) == [k \in 1..n |-> 0]

\* for j_ptr in range(lo, hi): g_row[g_indices[j_ptr]] += g_data[j_ptr]
RECURSIVE CSMGrad_scatter(_, _, _, _, _)
CSMGrad_scatter(g_row, g_indices, g_data, lo, hi) ==
    IF lo >= hi THEN g_row
    ELSE CSMGrad_scatter(
            [g_row EXCEPT ![At(g_indices, lo) + 1] = @ + At(g_data, lo)],
            g_indices, g_data, lo + 1, hi)

\* the gathering loop reading the first cell of the buffer for every entry
RECURSIVE CSMGrad_gather_first(_, _, _, _, _)
CSMGrad_gather_first(gout_data, g_row, x_indices, lo, hi) ==
    IF lo >= hi THEN gout_data
    ELSE CSMGrad_gather_first(
            [gout_data EXCEPT ![lo + 1] = At(g_row, 0)],
            g_row, x_indices, lo + 1, hi)

\* for j_ptr in range(lo, hi): gout_data[j_ptr] = g_row[x_indices[j_ptr]]
RECURSIVE CSMGrad_gather(_, _, _, _, _)
CSMGrad_gather(gout_data, g_row, x_indices, lo, hi) ==
    IF lo >= hi THEN gout_data
    ELSE CSMGrad_gather(
            [gout_data EXCEPT ![lo + 1] = At(g_row, At(x_indices, lo))],
            g_row, x_indices, lo + 1, hi)

\* the clearing loop ending one entry early
RECURSIVE CSMGrad_clear_short(_, _, _, _)
CSMGrad_clear_short(g_row, g_indices, lo, hi) ==
    IF lo + 1 >= hi THEN g_row
    ELSE CSMGrad_clear_short([g_row EXCEPT ![At(g_indices, lo) + 1] = 0],
                             g_indices, lo + 1, hi)

\* the clearing loop left out: the buffer keeps the scattered values
CSMGrad_clear_skipped(g_row, g_indices, lo, hi) == g_row

\* for j_ptr in range(lo, hi): g_row[g_indices[j_ptr]] = 0
RECURSIVE CSMGrad_clear(_, _, _, _)
CSMGrad_clear(g_row, g_indices, lo, hi) ==
    IF lo >= hi THEN g_row
    ELSE CSMGrad_clear([g_row EXCEPT ![At(g_indices, lo) + 1] = 0],
                       g_indices, lo + 1, hi)

\* the length of the dense row buffer
CSMGrad_sp_dim(x_indptr, x_shape) ==
    IF Len(x_indptr) - 1 = x_shape[1] THEN x_shape[2] ELSE x_shape[1]

\* the incoming gradient of a CSM node with output pattern x: a matrix of x's
\* format and shape that stores x's pattern, or x's pattern with one entry
\* dropped, with one entry added to a slice, or with every slice reversed
DropEntry(m, k) ==
    [m EXCEPT !.indices = SubSeq(@, 1, k - 1) \o SubSeq(@, k + 1, Len(@)),
              !.data = SubSeq(@, 1, Len(@) - 1),
              !.indptr = [i \in 1..Len(@) |-> IF @[i] >= k THEN @[i] - 1 ELSE @[i]]]

AddEntry(m, i, j) ==
    LET at == At(m.indptr, i + 1)
    IN  [m EXCEPT !.indices = SubSeq(@, 1, at) \o <<j>> \o SubSeq(@, at + 1, Len(@)),
                  !.data = Append(@, 0),
                  !.indptr = [q \in 1..Len(@) |-> IF q > i + 1 THEN @[q] + 1 ELSE @[q]]]

\* position k of slice i holds what position (lo + hi + 1 - k) held
ReverseSlices(m) ==
    LET major == Len(m.indptr) - 1
        SliceOf(k) == CHOOSE i \in 0..(major - 1) : k \in SliceRange(m.indptr, i)
    IN  [m EXCEPT !.indices =
            [k \in 1..Len(@) |->
                @[At(m.indptr, SliceOf(k)) + At(m.indptr, SliceOf(k) + 1) + 1 - k]]]

GradPattern(x, v) ==
    IF v[1] = "reverse" THEN ReverseSlices(x)
    ELSE IF v[1] = "drop" /\ v[2] <= Nnz(x) THEN DropEntry(x, v[2])
    ELSE IF v[1] = "add" /\ v[2] < x.shape[MajorAxis(x.format)]
                         /\ v[3] < x.shape[MinorAxis(x.format)]
    THEN AddEntry(x, v[2], v[3])
    ELSE x

GradVariants ==
    {<<"same", 0, 0>>, <<"reverse", 0, 0>>}
    \cup {<<"drop", k, 0>> : k \in 1..MaxNnz}
    \cup {<<"add", i, j>> : i \in 0..(MaxDim - 1), j \in 0..(MaxDim - 1)}

CSMGradInput(x, g, s) ==
    [format |-> x.format,
     x_data |-> x.data, x_indices |-> x.indices,
     x_indptr |-> x.indptr, x_shape |-> x.shape,
     g_data |-> DataVec(Nnz(g), s), g_indices |-> g.indices,
     g_indptr |-> g.indptr, g_shape |-> g.shape]

CSMGradInputs ==
    {CSMGradInput(x, GradPattern(x, v), s) :
        x \in {m \in SmallMatrices : m.data = DataVec(Nnz(m), 0)},
        v \in GradVariants, s \in 0..MaxSeed}

InitCSMGrad ==
    /\ pc = "start"
    /\ inp \in CSMGradInputs
    /\ loc = <<>>
    /\ out = <<>>
    /\ err = NoErr

\* CSMGrad.perform up to the outer loop (lines 852-858)
CSMGradBegin ==
    /\ pc = "start"
    /\ loc' = [i |-> 0,
               g_row |-> zeros(CSMGrad_sp_dim(inp.x_indptr, inp.x_shape)),
               gout_data |-> zeros(Len(inp.x_data))]
    /\ pc' = "loop"
    /\ UNCHANGED <<inp, out, err>>

\* one iteration of the outer loop (lines 860-868)
CSMGradRow ==
    /\ pc = "loop"
    /\ loc.i < Len(inp.x_indptr) - 1
    /\ LET i == loc.i
           scattered == CSMGrad_scatter(loc.g_row, inp.g_indices, inp.g_data,
                                        At(inp.g_indptr, i), At(inp.g_indptr, i + 1))
       IN  loc' = [i |-> i + 1,
                   g_row |-> CSMGrad_clear(scattered, inp.g_indices,
                                           At(inp.g_indptr, i), At(inp.g_indptr, i + 1)),
                   gout_data |-> CSMGrad_gather(loc.gout_data, scattered, inp.x_indices,
                                                At(inp.x_indptr, i), At(inp.x_indptr, i + 1))]
    /\ UNCHANGED <<pc, inp, out, err>>

\* the loop is over: g_out[0] = gout_data (line 870)
CSMGradEnd ==
    /\ pc = "loop"
    /\ loc.i = Len(inp.x_indptr) - 1
    /\ out' = <<loc.gout_data>>
    /\ pc' = "done"
    /\ UNCHANGED <<inp, loc, err>>

NextCSMGrad == CSMGradBegin \/ CSMGradRow \/ CSMGradEnd

SpecCSMGrad == InitCSMGrad /\ [][NextCSMGrad]_vars

(***************************************************************************)
(* Claims on CSMGrad (specification SpecCSMGrad).                          *)
(***************************************************************************)
\* the incoming gradient carries exactly the pattern of the original matrix
SamePattern ==
    /\ inp.g_indices = inp.x_indices
    /\ inp.g_indptr = inp.x_indptr
    /\ inp.g_shape = inp.x_shape

\* no position is stored twice in the original pattern
NoDuplicates ==
    \A i \in 0..(Len(inp.x_indptr) - 2) :
        \A k, l \in SliceRange(inp.x_indptr, i) :
            k # l => inp.x_indices[k] # inp.x_indices[l]

\* C2 as stated: with the incoming gradient on exactly the original pattern,
\* for every pattern of a csr/csc matrix, CSMGrad returns the gradient data g
\* unchanged.
C2_IdentityAnyPattern ==
    (pc = "done" /\ SamePattern) => out = <<inp.g_data>>

\* C2 as amended: CSMGrad returns g unchanged when the incoming gradient is
\* on exactly the original pattern and that pattern stores no position twice
\* (sorted within a slice or not).
C2_IdentityNoDuplicates ==
    (pc = "done" /\ SamePattern /\ NoDuplicates) => out = <<inp.g_data>>

C2_Witness ==
    /\ pc = "done"
    /\ SamePattern
    /\ NoDuplicates
    /\ Len(inp.x_data) = MaxNnz
    /\ \E k \in 1..Len(inp.g_data) : inp.g_data[k] # 0
    /\ out = <<inp.g_data>>

\* the incoming gradient as a matrix
GradMatrix ==
    [format |-> inp.format, data |-> inp.g_data, indices |-> inp.g_indices,
     indptr |-> inp.g_indptr, shape |-> inp.g_shape]

\* the value of the incoming gradient at minor index c of slice i: the sum of
\* what it stores there, 0 when it stores nothing
GradValueAt(i, c) == EntrySum(GradMatrix, i, c, At(inp.g_indptr, i) + 1)

\* the gradient stores an entry at minor index c of slice i
GradStores(i, c) == \E j \in SliceRange(inp.g_indptr, i) : inp.g_indices[j] = c

\* C24: for a gradient of the shape and format of the original matrix with a
\* pattern of its own, CSMGrad returns a vector as long as x_data whose entry
\* for the original position k, in slice i with minor index c, is the value
\* of the gradient at (i, c), and 0 when the gradient stores nothing there;
\* what the gradient stores elsewhere has no effect.
C24_PatternRemap ==
    pc = "done" =>
        /\ Len(out[1]) = Len(inp.x_data)
        /\ \A i \in 0..(Len(inp.x_indptr) - 2) :
            \A k \in SliceRange(inp.x_indptr, i) :
                /\ out[1][k] = GradValueAt(i, inp.x_indices[k])
                /\ ~GradStores(i, inp.x_indices[k]) => out[1][k] = 0

\* the gradient stores a nonzero value where the original stores nothing,
\* and the original stores two different positions with different gradients
C24_Witness ==
    /\ pc = "done"
    /\ ~SamePattern
    /\ \E i \in 0..(Len(inp.g_indptr) - 2) : \E j \in SliceRange(inp.g_indptr, i) :
        /\ inp.g_data[j] # 0
        /\ \A k \in SliceRange(inp.x_indptr, i) : inp.x_indices[k] # inp.g_indices[j]
    /\ \E k \in 1..Len(out[1]) : out[1][k] # 0

\* an original position without a gradient entry got 0 beside a nonzero one
C24_WitnessDropped ==
    /\ pc = "done"
    /\ \E i \in 0..(Len(inp.x_indptr) - 2) : \E k \in SliceRange(inp.x_indptr, i) :
        ~GradStores(i, inp.x_indices[k]) /\ out[1][k] = 0
    /\ \E k \in 1..Len(out[1]) : out[1][k] # 0

\* C25: the dense row buffer is all zeros before every iteration of the
\* outer loop and after the last one, whatever the pattern of the gradient,
\* and every index the iterations so far used on the buffer is in
\* [0, sp_dim).
C25_BufferCleared ==
    pc \in {"loop", "done"} =>
        /\ loc.g_row = zeros(CSMGrad_sp_dim(inp.x_indptr, inp.x_shape))
        /\ Len(loc.g_row) = inp.x_shape[MinorAxis(inp.format)]
        /\ \A i \in 0..(loc.i - 1) :
            /\ \A j \in SliceRange(inp.g_indptr, i) :
                    inp.g_indices[j] \in 0..(Len(loc.g_row) - 1)
            /\ \A k \in SliceRange(inp.x_indptr, i) :
                    inp.x_indices[k] \in 0..(Len(loc.g_row) - 1)

\* the loop ended on a gradient that stores more entries in a slice than the
\* original, with a repeated index and nonzero values
C25_Witness ==
    /\ pc = "done"
    /\ \E i \in 0..(Len(inp.g_indptr) - 2) :
        /\ Cardinality(SliceRange(inp.g_indptr, i)) > Cardinality(SliceRange(inp.x_indptr, i))
        /\ \E j, l \in SliceRange(inp.g_indptr, i) :
            j # l /\ inp.g_indices[j] = inp.g_indices[l] /\ inp.g_data[j] # 0 /\ inp.g_data[l] # 0

(***************************************************************************)
(* SpSum, sp_sum and the operators its gradient is built from.             *)
(***************************************************************************)
continuous_dtypes == {"complex64", "complex128", "float16", "float32", "float64"}

\* the major slice (0-based) that holds position k of data
SliceOfPos(indptr, k) ==
    CHOOSE i \in 0..(Len(indptr) - 2) : k \in SliceRange(indptr, i)

\* Transpose.perform: x.transpose() keeps the three arrays and swaps the format
Transpose_perform(x) ==
    [x EXCEPT !.format = IF @ = "csr" THEN "csc" ELSE "csr",
              !.shape = <<@[2], @[1]>>]

\* ColScaleCSC.perform
ColScaleCSC_perform(x, s) ==
    [x EXCEPT !.data = [k \in 1..Len(@) |-> @[k] * At(s, SliceOfPos(x.indptr, k))]]

\* RowScaleCSC.perform
RowScaleCSC_perform(x, s) ==
    [x EXCEPT !.data = [k \in 1..Len(@) |-> @[k] * At(s, x.indices[k])]]

\* col_scale leaving out the final transpose of its csr branch
col_scale_untransposed(x, s) ==
    IF x.format = "csc" THEN ColScaleCSC_perform(x, s)
    ELSE RowScaleCSC_perform(Transpose_perform(x), s)

col_scale(x, s) ==
    IF x.format = "csc" THEN ColScaleCSC_perform(x, s)
    ELSE Transpose_perform(RowScaleCSC_perform(Transpose_perform(x), s))

row_scale(x, s) == Transpose_perform(col_scale(Transpose_perform(x), s))

\* sp_ones_like: CSM(format)(ones_like(data), indices, indptr, shape)
sp_ones_like(x) == [x EXCEPT !.data = [k \in 1..Len(@) |-> 1]]

\* sp_zeros_like: CSM(format)([], [], zeros_like(indptr), shape)
sp_zeros_like(x) ==
    [x EXCEPT !.data = <<>>, !.indices = <<>>, !.indptr = zeros(Len(@))]

\* MulSD.perform with a 0-d dense operand: out[0].data *= y
MulSD_perform_scalar(x, y) == [x EXCEPT !.data = [k \in 1..Len(@) |-> @[k] * y]]

\* minor indices (ascending, from j on) of the nonzero values of slice i of a
\* dense matrix d with `minor` minor indices
RECURSIVE NonzeroMinors(_, _, _, _, _)
NonzeroMinors(d, format, i, j, minor) ==
    IF j >= minor THEN <<>>
    ELSE LET v == IF format = "csr" THEN At2(d, i, j) ELSE At2(d, j, i)
         IN  (IF v # 0 THEN <<j>> ELSE <<>>) \o NonzeroMinors(d, format, i, j + 1, minor)

RECURSIVE ConcatSlices(_, _, _, _, _)
ConcatSlices(d, format, i, major, minor) ==
    IF i >= major THEN <<>>
    ELSE NonzeroMinors(d, format, i, 0, minor) \o ConcatSlices(d, format, i + 1, major, minor)

\* SparseFromDense.perform: csr_matrix(x) / csc_matrix(x) of a dense matrix
\* stores exactly its nonzero values
SparseFromDense_perform(format, d0, shape) ==
    LET d == Array([i \in 1..Len(d0) |-> Array(d0[i])])
        major == shape[MajorAxis(format)]
        minor == shape[MinorAxis(format)]
        indices == ConcatSlices(d, format, 0, major, minor)
        indptr == Array([q \in 1..(major + 1) |->
                    Len(indices) - Len(ConcatSlices(d, format, q - 1, major, minor))])
    IN  [format |-> format,
         data |-> [k \in 1..Len(indices) |->
                    LET i == SliceOfPos(indptr, k)
                    IN  IF format = "csr" THEN At2(d, i, indices[k])
                        ELSE At2(d, indices[k], i)],
         indices |-> indices,
         indptr |-> indptr,
         shape |-> shape]

\* SpSum.__init__(axis=None, sparse_grad=True); an argument left out is "unset"
SpSum_init(axis, sparse_grad) ==
    [axis |-> IF axis = "unset" THEN "None" ELSE axis,
     structured |-> IF sparse_grad = "unset" THEN TRUE ELSE sparse_grad = "True"]

\* sp_sum with sparse_grad defaulting to True
sp_sum_structured_default(axis, sparse_grad) ==
    SpSum_init(IF axis = "unset" THEN "None" ELSE axis,
               IF sparse_grad = "unset" THEN "True" ELSE sparse_grad)

\* sp_sum(x, axis=None, sparse_grad=False): SpSum(axis, sparse_grad)(x)
sp_sum(axis, sparse_grad) ==
    SpSum_init(IF axis = "unset" THEN "None" ELSE axis,
               IF sparse_grad = "unset" THEN "False" ELSE sparse_grad)

\* _sparse_py_operators.sum(self, axis=None, sparse_grad=False)
sparse_py_operators_sum(axis, sparse_grad) ==
    sp_sum(IF axis = "unset" THEN "None" ELSE axis,
           IF sparse_grad = "unset" THEN "False" ELSE sparse_grad)

\* SpSum.perform summing over the other axis
SpSum_perform_otheraxis(op, x) ==
    LET d == toarray(x)
    IN  IF op.axis = "None"
        THEN SeqSum([k \in 1..Nnz(x) |-> x.data[k]])
        ELSE IF op.axis = "1"
        THEN [c \in 1..x.shape[2] |-> SeqSum([r \in 1..x.shape[1] |-> d[r][c]])]
        ELSE [r \in 1..x.shape[1] |-> SeqSum([c \in 1..x.shape[2] |-> d[r][c]])]

\* SpSum.perform
SpSum_perform(op, x) ==
    LET d == toarray(x)
    IN  IF op.axis = "None"
        THEN SeqSum([k \in 1..Nnz(x) |-> x.data[k]])
        ELSE IF op.axis = "0"
        THEN [c \in 1..x.shape[2] |-> SeqSum([r \in 1..x.shape[1] |-> d[r][c]])]
        ELSE [r \in 1..x.shape[1] |-> SeqSum([c \in 1..x.shape[2] |-> d[r][c]])]

\* SpSum.grad, evaluated: the gradient with respect to x for output gradient gz
SpSum_grad(op, x, dtype, gz) ==
    IF dtype \notin continuous_dtypes THEN sp_zeros_like(x)
    ELSE IF op.structured
    THEN IF op.axis = "None" THEN MulSD_perform_scalar(sp_ones_like(x), gz)
         ELSE IF op.axis = "0" THEN col_scale(sp_ones_like(x), gz)
         ELSE row_scale(sp_ones_like(x), gz)
    ELSE SparseFromDense_perform(
            x.format,
            [r \in 1..x.shape[1] |->
                [c \in 1..x.shape[2] |->
                    IF op.axis = "None" THEN gz
                    ELSE IF op.axis = "0" THEN gz[c] * 1
                    ELSE gz[r] * 1]],
            x.shape)

\* an output gradient for the sum over `axis` of x: never zero
SumOutputGrad(x, axis) ==
    IF axis = "None" THEN 2
    ELSE [k \in 1..(IF axis = "0" THEN x.shape[2] ELSE x.shape[1]) |-> k + 1]

SumCalls ==
    [fn : {"sp_sum", "x.sum", "SpSum"}, axis : {"unset", "None", "0", "1"},
     sparse_grad : {"unset", "True", "False"}]

InitSum ==
    /\ pc = "start"
    /\ inp \in [x : {m \in SmallMatrices : m.data = DataVec(Nnz(m), 1)},
                dtype : {"float64", "int32"}]
    /\ loc = <<>>
    /\ out = <<>>
    /\ err = NoErr

\* graph construction: the user calls sp_sum(x, ...), x.sum(...) or SpSum(...)(x)
SumMakeNode ==
    /\ pc = "start"
    /\ \E call \in SumCalls :
        loc' = [call |-> call,
                op |-> IF call.fn = "sp_sum" THEN sp_sum(call.axis, call.sparse_grad)
                       ELSE IF call.fn = "x.sum"
                       THEN sparse_py_operators_sum(call.axis, call.sparse_grad)
                       ELSE SpSum_init(call.axis, call.sparse_grad)]
    /\ pc' = "node"
    /\ UNCHANGED <<inp, out, err>>

\* evaluation of the node
SumPerform ==
    /\ pc = "node"
    /\ out' = <<SpSum_perform(loc.op, inp.x)>>
    /\ pc' = "summed"
    /\ UNCHANGED <<inp, loc, err>>

\* evaluation of the gradient graph SpSum.grad builds
SumGrad ==
    /\ pc = "node"
    /\ out' = <<SpSum_grad(loc.op, inp.x, inp.dtype, SumOutputGrad(inp.x, loc.op.axis))>>
    /\ pc' = "grad"
    /\ UNCHANGED <<inp, loc, err>>

NextSum == SumMakeNode \/ SumPerform \/ SumGrad

SpecSum == InitSum /\ [][NextSum]_vars

(***************************************************************************)
(* Claims on sp_sum (specification SpecSum).                               *)
(***************************************************************************)
\* the gradient out[1] is nonzero only where x stores an entry
GradIsStructured ==
    \A r \in 0..(inp.x.shape[1] - 1), c \in 0..(inp.x.shape[2] - 1) :
        At2(toarray(out[1]), r, c) # 0 => Stored(inp.x, r, c)

DefaultedCall == loc.call.fn \in {"sp_sum", "x.sum"} /\ loc.call.sparse_grad = "unset"

\* C4 as stated: sp_sum(x, axis) and x.sum(axis) called without sparse_grad
\* give a structured gradient (nonzero only at the stored positions of x).
C4_DefaultIsStructured ==
    (pc = "grad" /\ DefaultedCall) => GradIsStructured

\* C4 as amended: sp_sum(x, axis) and x.sum(axis) called without sparse_grad
\* build SpSum with structured = False (a regular gradient: for a floating
\* point x every position receives the output gradient); the gradient is
\* structured when sparse_grad=True is passed, and when SpSum is constructed
\* directly without the argument.
C4_DefaultIsRegular ==
    /\ (pc = "grad" /\ DefaultedCall) =>
            /\ ~loc.op.structured
            /\ inp.dtype \in continuous_dtypes =>
                \A r \in 0..(inp.x.shape[1] - 1), c \in 0..(inp.x.shape[2] - 1) :
                    At2(toarray(out[1]), r, c) =
                        (IF loc.op.axis = "None" THEN SumOutputGrad(inp.x, "None")
                         ELSE IF loc.op.axis = "0" THEN At(SumOutputGrad(inp.x, "0"), c)
                         ELSE At(SumOutputGrad(inp.x, "1"), r))
    /\ (pc = "grad" /\ (loc.call.sparse_grad = "True"
                        \/ (loc.call.fn = "SpSum" /\ loc.call.sparse_grad = "unset"))) =>
            (loc.op.structured /\ GradIsStructured)

C4_Witness ==
    /\ pc = "grad"
    /\ DefaultedCall
    /\ inp.dtype = "float64"
    /\ ~loc.op.structured
    /\ \E r \in 0..(inp.x.shape[1] - 1), c \in 0..(inp.x.shape[2] - 1) :
        ~Stored(inp.x, r, c) /\ At2(toarray(out[1]), r, c) # 0

\* C14: sp_sum over a matrix that stores no entry never raises and returns
\* zeros: a zero scalar for axis=None, a zero vector with one element per
\* column for axis=0 and one per row for axis=1.
C14_SumOfEmptyIsZero ==
    (pc = "summed" /\ Nnz(inp.x) = 0) =>
        /\ err = NoErr
        /\ Len(out) = 1
        /\ out[1] = CASE loc.op.axis = "None" -> 0
                      [] loc.op.axis = "0" -> zeros(inp.x.shape[2])
                      [] loc.op.axis = "1" -> zeros(inp.x.shape[1])

\* the sum over axis 0 of an empty 1 x 2 matrix: two zeros
C14_Witness ==
    /\ pc = "summed"
    /\ Nnz(inp.x) = 0
    /\ inp.x.shape = <<1, 2>>
    /\ loc.op.axis = "0"
    /\ out = <<(<<0, 0>>)>>

(***************************************************************************)
(* structured_dot, StructuredDot and its structured gradient.              *)
(***************************************************************************)
\* dense test matrices and vectors, one per seed
DenseMat(r, c, s) ==
    [i \in 1..r |-> [k \in 1..c |-> ((i * (s + 2) + k * (2 * s + 1) + i * k) % 5) - 2]]

DenseShape(d) == <<Len(d), Len(d[1])>>

\* ndarray.T of a 2-d array
DenseT(d) == [k \in 1..Len(d[1]) |-> [i \in 1..Len(d) |-> d[i][k]]]

\* np.dot of two 1-d arrays
Dot(u, v) == SeqSum([k \in 1..Len(u) |-> u[k] * v[k]])

\* row and column (0-based) of stored entry p of a csr/csc matrix
RowOf(m, p) == IF m.format = "csr" THEN SliceOfPos(m.indptr, p) ELSE m.indices[p]

ColOf(m, p) == IF m.format = "csr" THEN m.indices[p] ELSE SliceOfPos(m.indptr, p)

\* scipy's a * b for a sparse a and a 2-d ndarray b: every stored entry (i, j)
\* of a adds a.data * b[j, :] to row i
sparse_times_dense(a, b) ==
    [i \in 1..a.shape[1] |->
        [k \in 1..Len(b[1]) |->
            SeqSum([p \in 1..Nnz(a) |->
                IF RowOf(a, p) = i - 1 THEN a.data[p] * b[ColOf(a, p) + 1][k] ELSE 0])]]

\* the matrix product of two 2-d arrays
DenseProduct(x, y) ==
    [i \in 1..Len(x) |->
        [k \in 1..Len(y[1]) |-> SeqSum([m \in 1..Len(y) |-> x[i][m] * y[m][k]])]]

\* scipy's a * b for two sparse matrices: the product, in the format of a
sparse_times_sparse(a, b) ==
    SparseFromDense_perform(a.format, sparse_times_dense(a, toarray(b)),
                            <<a.shape[1], b.shape[2]>>)

(***************************************************************************)
(* Operands of structured_dot.  A symbolic variable is modelled together   *)
(* with the value it is bound to at evaluation: kind is "SparseVariable"   *)
(* or "TensorVariable" (or "spmatrix", a scipy matrix passed as is), sp     *)
(* the sparse value, dn the dense one.                                     *)
(***************************************************************************)
NoSparse == [format |-> "none", data |-> <<>>, indices |-> <<>>, indptr |-> <<>>,
             shape |-> <<>>]

SparseOperand(kind, m) == [kind |-> kind, ndim |-> 2, sp |-> m, dn |-> <<>>]

DenseOperand(ndim, d) == [kind |-> "TensorVariable", ndim |-> ndim, sp |-> NoSparse, dn |-> d]

\* _is_sparse_variable
is_sparse_variable(v) == v.kind = "SparseVariable"

\* as_sparse_variable on a scipy matrix: a SparseConstant of its format
as_sparse_variable(v) == IF v.kind = "spmatrix" THEN [v EXCEPT !.kind = "SparseVariable"] ELSE v

\* x.T of a variable: Transpose for a sparse one, DimShuffle for a dense one
VariableT(v) ==
    IF is_sparse_variable(v) THEN [v EXCEPT !.sp = Transpose_perform(@)]
    ELSE IF v.ndim = 2 THEN [v EXCEPT !.dn = DenseT(@)]
    ELSE v

NoNode == [a |-> DenseOperand(0, <<>>), b |-> DenseOperand(0, <<>>),
           out_kind |-> "none", out_format |-> "none", transposed |-> FALSE]

\* StructuredDot.make_node (dtypes left out)
StructuredDot_make_node(a, b) ==
    IF ~is_sparse_variable(a)
    THEN [err |-> Raise("TypeError", "Variable type field must be a SparseTensorType."),
          node |-> NoNode]
    ELSE IF b.ndim # 2
    THEN [err |-> Raise("NotImplementedError", "non-matrix b"), node |-> NoNode]
    ELSE [err |-> NoErr,
          node |-> [a |-> a, b |-> b,
                    out_kind |-> IF is_sparse_variable(b) THEN "sparse" ELSE "dense",
                    out_format |-> IF is_sparse_variable(b) THEN a.sp.format ELSE "dense",
                    transposed |-> FALSE]]

\* structured_dot without the transposes of its dense-first branch
structured_dot_untransposed(x0, y0) ==
    LET x == as_sparse_variable(x0)
        y == as_sparse_variable(y0)
    IN  IF ~is_sparse_variable(x) /\ ~is_sparse_variable(y)
        THEN [err |-> Raise("TypeError", "structured_dot requires at least one sparse argument"),
              node |-> NoNode]
        ELSE IF is_sparse_variable(x) THEN StructuredDot_make_node(x, y)
        ELSE StructuredDot_make_node(y, x)

\* structured_dot: the node built, and whether its output is transposed
structured_dot(x0, y0) ==
    LET x == as_sparse_variable(x0)
        y == as_sparse_variable(y0)
    IN  IF ~is_sparse_variable(x) /\ ~is_sparse_variable(y)
        THEN [err |-> Raise("TypeError", "structured_dot requires at least one sparse argument"),
              node |-> NoNode]
        ELSE IF is_sparse_variable(x) THEN StructuredDot_make_node(x, y)
        ELSE LET r == StructuredDot_make_node(VariableT(y), VariableT(x))
             IN  [r EXCEPT !.node.transposed = (r.err = NoErr)]

\* the shape of the value of an operand
ValueShape(v) == IF is_sparse_variable(v) THEN v.sp.shape ELSE DenseShape(v.dn)

\* StructuredDot.perform raising its ValueError without the shapes
StructuredDot_perform_noshapes(node) ==
    IF ValueShape(node.a)[2] # ValueShape(node.b)[1]
    THEN [err |-> Raise("ValueError", "shape mismatch in StructuredDot.perform"),
          variable |-> <<>>, sp |-> <<>>, dn |-> <<>>]
    ELSE IF node.out_kind = "sparse"
    THEN [err |-> NoErr, variable |-> <<"sparse">>,
          sp |-> <<sparse_times_sparse(node.a.sp, node.b.sp)>>, dn |-> <<>>]
    ELSE [err |-> NoErr, variable |-> <<"dense">>,
          sp |-> <<>>, dn |-> <<sparse_times_dense(node.a.sp, node.b.dn)>>]

\* StructuredDot.perform: what it raised, whether the product `variable` was
\* computed, and the output cell (sp for a sparse output type, dn for a dense)
StructuredDot_perform(node) ==
    IF ValueShape(node.a)[2] # ValueShape(node.b)[1]
    THEN [err |-> RaiseWith("ValueError", "shape mismatch in StructuredDot.perform",
                            <<ValueShape(node.a), ValueShape(node.b)>>),
          variable |-> <<>>, sp |-> <<>>, dn |-> <<>>]
    ELSE IF node.out_kind = "sparse"
    THEN [err |-> NoErr, variable |-> <<"sparse">>,
          sp |-> <<sparse_times_sparse(node.a.sp, node.b.sp)>>, dn |-> <<>>]
    ELSE [err |-> NoErr, variable |-> <<"dense">>,
          sp |-> <<>>, dn |-> <<sparse_times_dense(node.a.sp, node.b.dn)>>]

\* StructuredDotGradCSR.perform with the loop over the rows one row short
StructuredDotGradCSR_perform_short(a_indices, a_indptr, b, g_ab) ==
    [j_idx \in 1..Len(a_indices) |->
        IF j_idx > a_indptr[Len(a_indptr) - 1] THEN 0
        ELSE Dot(g_ab[SliceOfPos(a_indptr, j_idx) + 1], b[a_indices[j_idx] + 1])]

\* StructuredDotGradCSR.perform: for each row i and each j_idx of its slice,
\* g_a_data[j_idx] = dot(g_ab[i], b[a_indices[j_idx]])
StructuredDotGradCSR_perform(a_indices, a_indptr, b, g_ab) ==
    [j_idx \in 1..Len(a_indices) |->
        IF j_idx > a_indptr[Len(a_indptr)] THEN 0
        ELSE Dot(g_ab[SliceOfPos(a_indptr, j_idx) + 1], b[a_indices[j_idx] + 1])]

\* StructuredDotGradCSC.perform: for each column j and each i_idx of its slice,
\* g_a_data[i_idx] = dot(g_ab[a_indices[i_idx]], b[j])
StructuredDotGradCSC_perform(a_indices, a_indptr, b, g_ab) ==
    [i_idx \in 1..Len(a_indices) |->
        IF i_idx > a_indptr[Len(a_indptr)] THEN 0
        ELSE Dot(g_ab[a_indices[i_idx] + 1], b[SliceOfPos(a_indptr, i_idx) + 1])]

\* the int32 vectors of CSMProperties, back as plain integers
PlainSeq(a) == [k \in 1..Len(a) |-> WVal(a[k])]

\* structured_dot_grad(sparse_A, dense_B, ga), evaluated: the csc / csr routine
\* on csm_indices(A), csm_indptr(A), then CSC / CSR on the data it returns
structured_dot_grad(sparse_A, dense_B, ga, strict) ==
    LET props == CSMProperties_perform(WideMatrix(sparse_A), strict).val
        indices == PlainSeq(props[2][1])
        indptr == PlainSeq(props[3][1])
        g_A_data == IF sparse_A.format = "csc"
                    THEN StructuredDotGradCSC_perform(indices, indptr, dense_B, ga)
                    ELSE StructuredDotGradCSR_perform(indices, indptr, dense_B, ga)
    IN  CSM_perform(sparse_A.format, g_A_data, props[2][1], props[3][1], props[4][1])

SeedMatrices == {m \in SmallMatrices : m.data = DataVec(Nnz(m), 0)}

\* sparse matrices in canonical form (sorted, no duplicates, no stored zero)
CanonicalMatrices ==
    {SparseFromDense_perform(f, DenseMat(sh[1], sh[2], s), sh) :
        f \in sparse_formats, sh \in SmallShapes, s \in 0..MaxSeed}

\* the dense operands of one seed: matrices of every small shape, and vectors
DenseOperands(s) ==
    {DenseOperand(2, DenseMat(sh[1], sh[2], s)) : sh \in SmallShapes}
    \cup {DenseOperand(1, DenseMat(1, n, s)[1]) : n \in 1..MaxDim}

\* the dense operands paired with the sparse matrix m
DenseFor(m) == DenseOperands(Nnz(m) % (MaxSeed + 1))

SparseKinds == {"SparseVariable", "spmatrix"}

InitSDot ==
    /\ pc = "start"
    /\ \/ \E m \in SeedMatrices : \E d \in DenseFor(m) :
            inp = [x |-> SparseOperand("SparseVariable", m), y |-> d]
       \/ \E m \in SeedMatrices : \E d \in DenseFor(m) :
            inp = [x |-> d, y |-> SparseOperand("SparseVariable", m)]
       \/ \E m \in CanonicalMatrices, sh \in SmallShapes, f \in sparse_formats :
          \E kx \in SparseKinds, ky \in SparseKinds :
            inp = [x |-> SparseOperand(kx, m),
                   y |-> SparseOperand(ky, SparseFromDense_perform(f, DenseMat(sh[1], sh[2], 0), sh))]
       \/ \E s \in 0..MaxSeed : \E d \in DenseOperands(s), e \in DenseOperands(0) :
            inp = [x |-> d, y |-> e]
    /\ loc = [node |-> NoNode, variable |-> <<>>, g_out |-> <<>>]
    /\ out = [sp |-> <<>>, dn |-> <<>>]
    /\ err = NoErr

\* graph construction: structured_dot(x, y)
SDotMakeNode ==
    /\ pc = "start"
    /\ LET r == structured_dot(inp.x, inp.y)
       IN  /\ loc' = [loc EXCEPT !.node = r.node]
           /\ err' = r.err
           /\ pc' = IF r.err = NoErr THEN "node" ELSE "rejected"
    /\ UNCHANGED <<inp, out>>

\* evaluation of the graph: StructuredDot.perform, then the .T of the
\* dense-first branch
SDotPerform ==
    /\ pc = "node"
    /\ LET r == StructuredDot_perform(loc.node)
       IN  /\ loc' = [loc EXCEPT !.variable = r.variable]
           /\ err' = r.err
           /\ out' = [sp |-> r.sp,
                      dn |-> IF loc.node.transposed /\ r.dn # <<>>
                             THEN <<DenseT(r.dn[1])>> ELSE r.dn]
    /\ pc' = "evaluated"
    /\ UNCHANGED inp

\* evaluation of the gradient with respect to the sparse operand that
\* StructuredDot.grad builds, for an output gradient g_out of the output's shape
SDotGrad ==
    /\ pc = "node"
    /\ loc.node.out_kind = "dense"
    /\ ValueShape(loc.node.a)[2] = ValueShape(loc.node.b)[1]
    /\ \E s \in 0..MaxSeed, strict \in BOOLEAN :
        LET g_out == DenseMat(ValueShape(loc.node.a)[1], ValueShape(loc.node.b)[2], s)
            r == structured_dot_grad(loc.node.a.sp, loc.node.b.dn, g_out, strict)
        IN  /\ loc' = [loc EXCEPT !.g_out = g_out]
            /\ err' = r.err
            /\ out' = [sp |-> r.val, dn |-> <<>>]
    /\ pc' = "sdgrad"
    /\ UNCHANGED inp

NextSDot == SDotMakeNode \/ SDotPerform \/ SDotGrad

SpecSDot == InitSDot /\ [][NextSDot]_vars

(***************************************************************************)
(* Properties of the structured product.                                   *)
(***************************************************************************)
\* the stored positions of m whose minor index is j, from position p on
RECURSIVE PositionsWithMinor(_, _, _)
PositionsWithMinor(m, j, p) ==
    IF p > Nnz(m) THEN <<>>
    ELSE (IF m.indices[p] = j THEN <<p>> ELSE <<>>) \o PositionsWithMinor(m, j, p + 1)

\* the stored positions of m in the order of the other format, from minor j on
RECURSIVE MinorOrder(_, _)
MinorOrder(m, j) ==
    IF j >= m.shape[MinorAxis(m.format)] THEN <<>>
    ELSE PositionsWithMinor(m, j, 1) \o MinorOrder(m, j + 1)

\* the same stored entries held in the other format (csr <-> csc)
OtherFormat(m) ==
    LET perm == MinorOrder(m, 0)
    IN  [format |-> IF m.format = "csr" THEN "csc" ELSE "csr",
         data |-> [q \in 1..Nnz(m) |-> m.data[perm[q]]],
         indices |-> [q \in 1..Nnz(m) |-> SliceOfPos(m.indptr, perm[q])],
         indptr |-> [j \in 1..(m.shape[MinorAxis(m.format)] + 1) |->
                        Nnz(m) - Len(MinorOrder(m, j - 1))],
         shape |-> m.shape]

\* the data that the routine of the format of m computes for m
GradDataOf(m, b, g) ==
    IF m.format = "csc" THEN StructuredDotGradCSC_perform(m.indices, m.indptr, b, g)
    ELSE StructuredDotGradCSR_perform(m.indices, m.indptr, b, g)

SDotGradEnded == pc = "sdgrad"

\* C3: the gradient of structured_dot(A, B) with respect to A for an output
\* gradient G has the indices, indptr and shape of A, its data at each stored
\* entry (i, j) is the sum over k of G[i,k]*B[j,k], the (i, j) entry of
\* G @ B.T, and the csr and the csc routine give the same value for the
\* same entry of A.
C3_StructuredGradient ==
    SDotGradEnded =>
        LET A == loc.node.a.sp
            B == loc.node.b.dn
            G == loc.g_out
            dense == DenseProduct(G, DenseT(B))
            other == OtherFormat(A)
            perm == MinorOrder(A, 0)
        IN  /\ err = NoErr
            /\ Len(out.sp) = 1
            /\ out.sp[1].format = A.format
            /\ out.sp[1].indices = WideSeq(A.indices)
            /\ out.sp[1].indptr = WideSeq(A.indptr)
            /\ out.sp[1].shape = WideSeq(A.shape)
            /\ Len(out.sp[1].data) = Nnz(A)
            /\ \A p \in 1..Nnz(A) :
                /\ out.sp[1].data[p] =
                        SeqSum([k \in 1..Len(G[1]) |->
                                    At2(G, RowOf(A, p), k - 1) * At2(B, ColOf(A, p), k - 1)])
                /\ out.sp[1].data[p] = At2(dense, RowOf(A, p), ColOf(A, p))
            /\ toarray(other) = toarray(A)
            /\ \A q \in 1..Nnz(A) :
                GradDataOf(other, B, G)[q] = out.sp[1].data[perm[q]]

\* a gradient with two stored entries in different rows and columns, with
\* different values, at least one of them nonzero
C3_Witness ==
    /\ SDotGradEnded
    /\ err = NoErr
    /\ Nnz(loc.node.a.sp) = 2
    /\ RowOf(loc.node.a.sp, 1) # RowOf(loc.node.a.sp, 2)
    /\ ColOf(loc.node.a.sp, 1) # ColOf(loc.node.a.sp, 2)
    /\ out.sp[1].data[1] # out.sp[1].data[2]
    /\ out.sp[1].data[1] # 0

IsSparseOperand(v) == v.kind \in {"SparseVariable", "spmatrix"}

IsDenseMatrix(v) == v.kind = "TensorVariable" /\ v.ndim = 2

Unwritten == out = [sp |-> <<>>, dn |-> <<>>]

EvaluatedOk == pc = "evaluated" /\ err = NoErr

InnerMismatch == ValueShape(loc.node.a)[2] # ValueShape(loc.node.b)[1]

\* C10: whenever a.shape[1] != b.shape[0], StructuredDot.perform raises a
\* ValueError carrying both operand shapes, before the product is computed
\* and without writing an output; the construction of the node does not
\* reject such operands.
C10_ShapeMismatchAtEvaluation ==
    /\ (pc = "evaluated" /\ InnerMismatch) =>
            /\ err.type = "ValueError"
            /\ err.args = <<ValueShape(loc.node.a), ValueShape(loc.node.b)>>
            /\ loc.variable = <<>>
            /\ Unwritten
    /\ (pc = "evaluated" /\ ~InnerMismatch) => (err = NoErr /\ loc.variable # <<>>)
    /\ (pc = "node" /\ InnerMismatch) => (err = NoErr /\ Unwritten)

\* a 2 x 1 sparse a and a 2 x 2 dense b: evaluated, and rejected with the shapes
C10_Witness ==
    /\ pc = "evaluated"
    /\ InnerMismatch
    /\ err.type = "ValueError"
    /\ err.args = <<(<<2, 1>>), (<<2, 2>>)>>
    /\ loc.node.out_kind = "dense"

(***************************************************************************)
(* Operators with integer index inputs: what their classes declare for     *)
(* the gradient, and the evaluation of GetItemListGrad.                    *)
(***************************************************************************)
MaxIdx == MaxDim + 1

IndexOps == {"CSM", "ConstructSparseFromList", "GetItemList", "GetItem2Lists"}

\* the inputs of the Apply node each make_node builds
OpInputs(op) ==
    CASE op = "CSM" -> <<"data", "indices", "indptr", "shape">>
      [] op = "ConstructSparseFromList" -> <<"x.shape", "values", "ilist">>
      [] op = "GetItemList" -> <<"x", "index">>
      [] op = "GetItem2Lists" -> <<"x", "ind1", "ind2">>

\* a class that defines no connection_pattern method declares no pattern
NotDeclared == <<>>

CSM_connection_pattern == <<(<<TRUE>>), (<<FALSE>>), (<<FALSE>>), (<<FALSE>>)>>

ConstructSparseFromList_connection_pattern == <<(<<TRUE>>), (<<TRUE>>), (<<FALSE>>)>>

GetItemList_connection_pattern == NotDeclared

GetItem2Lists_connection_pattern == NotDeclared

connection_pattern(op) ==
    CASE op = "CSM" -> CSM_connection_pattern
      [] op = "ConstructSparseFromList" -> ConstructSparseFromList_connection_pattern
      [] op = "GetItemList" -> GetItemList_connection_pattern
      [] op = "GetItem2Lists" -> GetItem2Lists_connection_pattern

\* what a gradient rule returns for an input: an expression ("gradient"),
\* DisconnectedType()() or grad_undefined(...)
CSM_grad == <<"gradient", "disconnected", "disconnected", "disconnected">>

ConstructSparseFromList_grad(inputs) ==
    <<"gradient", "gradient">> \o [k \in 1..(Len(inputs) - 2) |-> "disconnected"]

\* GetItemList.grad returning the disconnected sentinel for the index
GetItemList_grad_disconnected == <<"gradient", "disconnected">>

GetItemList_grad == <<"gradient", "undefined">>

GetItem2Lists_grad == <<"gradient", "undefined", "undefined">>

grad(op) ==
    CASE op = "CSM" -> CSM_grad
      [] op = "ConstructSparseFromList" -> ConstructSparseFromList_grad(OpInputs(op))
      [] op = "GetItemList" -> GetItemList_grad
      [] op = "GetItem2Lists" -> GetItem2Lists_grad

\* scipy's row index: negative values count from the end
NormalizeRow(i, rows) == IF i < 0 THEN i + rows ELSE i

\* y[indices[a]] = gz[a], adding to the row instead of replacing it
GetItemListGrad_accumulate(y, i, row) ==
    [y EXCEPT ![NormalizeRow(i, Len(y)) + 1] = [c \in 1..Len(row) |-> @[c] + row[c]]]

\* y[indices[a]] = gz[a]: the row is cleared and takes the values of gz[a]
GetItemListGrad_assign(y, i, row) ==
    [y EXCEPT ![NormalizeRow(i, Len(y)) + 1] = row]

\* the matrices x of GetItemList: one of each format and shape
IndexedMatrices ==
    {SparseFromDense_perform(f, DenseMat(sh[1], sh[2], 0), sh) :
        f \in sparse_formats, sh \in SmallShapes}

\* index vectors of length n for a matrix of `rows` rows: -1 is the last row,
\* `rows` is out of range
IndexVectors(n, rows) == [1..n -> (-1)..rows]

NoIndexInput == [op |-> "CSM", x |-> NoSparse, indices |-> <<>>, gz |-> NoSparse]

InitIndex ==
    /\ pc = "start"
    /\ \/ \E op \in IndexOps \ {"GetItemList"} : inp = [NoIndexInput EXCEPT !.op = op]
       \/ \E x \in IndexedMatrices, n \in 0..MaxIdx, f \in sparse_formats :
          \E indices \in IndexVectors(n, x.shape[1]) :
            inp = [op |-> "GetItemList", x |-> x, indices |-> indices,
                   gz |-> SparseFromDense_perform(f,
                            DenseMat(n, x.shape[2], n % (MaxSeed + 1)), <<n, x.shape[2]>>)]
    /\ loc = [a |-> 0, y |-> <<>>, pattern |-> NotDeclared, grads |-> <<>>]
    /\ out = <<>>
    /\ err = NoErr

\* the gradient machinery asks the operator for its pattern and its gradients
IndexGrad ==
    /\ pc = "start"
    /\ loc' = [loc EXCEPT !.pattern = connection_pattern(inp.op), !.grads = grad(inp.op)]
    /\ pc' = "grad"
    /\ UNCHANGED <<inp, out, err>>

\* GetItemListGrad.perform up to its loop: y is an empty matrix like x
GetItemListGradBegin ==
    /\ pc = "grad"
    /\ inp.op = "GetItemList"
    /\ loc' = [loc EXCEPT !.a = 0,
                          !.y = [r \in 1..inp.x.shape[1] |-> zeros(inp.x.shape[2])]]
    /\ pc' = "assign"
    /\ UNCHANGED <<inp, out, err>>

\* one iteration of `for a in range(0, len(indices))`
GetItemListGradAssign ==
    /\ pc = "assign"
    /\ loc.a < Len(inp.indices)
    /\ LET i == At(inp.indices, loc.a)
       IN  IF i < -inp.x.shape[1] \/ i >= inp.x.shape[1]
           THEN /\ err' = Raise("IndexError", "row index out of range")
                /\ pc' = "failed"
                /\ UNCHANGED loc
           ELSE /\ loc' = [loc EXCEPT !.a = @ + 1,
                                      !.y = GetItemListGrad_assign(@, i,
                                                At(toarray(inp.gz), loc.a))]
                /\ UNCHANGED <<pc, err>>
    /\ UNCHANGED <<inp, out>>

\* out[0] = y
GetItemListGradEnd ==
    /\ pc = "assign"
    /\ loc.a = Len(inp.indices)
    /\ out' = <<[format |-> inp.x.format, shape |-> inp.x.shape, rows |-> loc.y]>>
    /\ pc' = "done"
    /\ UNCHANGED <<inp, loc, err>>

NextIndex == IndexGrad \/ GetItemListGradBegin \/ GetItemListGradAssign \/ GetItemListGradEnd

SpecIndex == InitIndex /\ [][NextIndex]_vars

(***************************************************************************)
(* Properties of the operators with index inputs.                          *)
(***************************************************************************)
\* the integer index inputs of each operator
IndexInputs(op) ==
    CASE op = "CSM" -> {2, 3, 4}
      [] op = "ConstructSparseFromList" -> {3}
      [] op = "GetItemList" -> {2}
      [] op = "GetItem2Lists" -> {2, 3}

MarkedDisconnected(k) ==
    /\ loc.pattern # NotDeclared
    /\ loc.pattern[k] = <<FALSE>>
    /\ loc.grads[k] = "disconnected"

\* C6 as stated: for CSM, ConstructSparseFromList, GetItemList and
\* GetItem2Lists the connection pattern reports every index input as not
\* connected and the gradient rule returns the disconnected sentinel for it.
C6_IndexInputsDisconnected ==
    (pc # "start") => \A k \in IndexInputs(inp.op) : MarkedDisconnected(k)

\* C6: CSM and ConstructSparseFromList report their index inputs as not
\* connected and return the disconnected sentinel for them; GetItemList and
\* GetItem2Lists declare no connection pattern and return the undefined
\* gradient marker for their index inputs.
C6_IndexInputsDisconnectedOrUndefined ==
    (pc # "start") =>
        /\ Len(loc.grads) = Len(OpInputs(inp.op))
        /\ \A k \in IndexInputs(inp.op) :
            IF inp.op \in {"CSM", "ConstructSparseFromList"}
            THEN MarkedDisconnected(k)
            ELSE loc.pattern = NotDeclared /\ loc.grads[k] = "undefined"
        /\ \A k \in (1..Len(loc.grads)) \ IndexInputs(inp.op) :
            /\ loc.grads[k] = "gradient"
            /\ loc.pattern # NotDeclared => loc.pattern[k] = <<TRUE>>

\* the gradient rule of GetItemList has answered for its index input
C6_Witness ==
    /\ pc = "grad"
    /\ inp.op = "GetItemList"
    /\ loc.grads[2] = "undefined"
    /\ loc.pattern = NotDeclared

\* the positions of indices that select row r (0-based)
PositionsOfRow(r) ==
    {a \in 1..Len(inp.indices) : NormalizeRow(inp.indices[a], inp.x.shape[1]) = r}

LastPosition(S) == CHOOSE a \in S : \A b \in S : b <= a

\* C7: GetItemListGrad on (x, indices, gz) returns a matrix of x's shape and
\* format that is zero except that each row r appearing in indices equals
\* gz[a] for the last position a with indices[a] = r: earlier duplicates are
\* overwritten, never summed.
C7_AssignSemantics ==
    (pc = "done") =>
        /\ err = NoErr
        /\ Len(out) = 1
        /\ out[1].format = inp.x.format
        /\ out[1].shape = inp.x.shape
        /\ Len(out[1].rows) = inp.x.shape[1]
        /\ \A r \in 0..(inp.x.shape[1] - 1) :
            out[1].rows[r + 1] =
                IF PositionsOfRow(r) = {} THEN zeros(inp.x.shape[2])
                ELSE toarray(inp.gz)[LastPosition(PositionsOfRow(r))]

\* a row selected twice with different nonzero rows of gz, another row never
C7_Witness ==
    /\ pc = "done"
    /\ \E r \in 0..(inp.x.shape[1] - 1) :
        /\ Cardinality(PositionsOfRow(r)) >= 2
        /\ \E a \in PositionsOfRow(r), b \in PositionsOfRow(r) :
            /\ a < b
            /\ toarray(inp.gz)[a] # toarray(inp.gz)[b]
            /\ toarray(inp.gz)[a] # zeros(inp.x.shape[2])
            /\ out[1].rows[r + 1] = toarray(inp.gz)[b]
            /\ out[1].rows[r + 1] # zeros(inp.x.shape[2])
    /\ \E r \in 0..(inp.x.shape[1] - 1) : PositionsOfRow(r) = {}

(***************************************************************************)
(* SparseConstantSignature: the pair (type, matrix) of a sparse constant.  *)
(* Matrix values are integers in units of 2.5e-7, so that the tolerance    *)
(* 1e-6 is Tolerance units; floating point rounding is not modelled.       *)
(***************************************************************************)
Tolerance == 4

sparse_dtypes == {"float32", "float64"}

\* a signature: a is the type, b the matrix with its own dtype
Signature(format, dtype, mdtype, m) ==
    [a |-> [format |-> format, dtype |-> dtype], b |-> [dtype |-> mdtype, m |-> m]]

\* the class of a scipy matrix: csr_matrix or csc_matrix
TypeOf(b) == b.m.format

\* abs(b - y).sum() of two sparse matrices of one shape
AbsDiffSum(b, y) ==
    LET diff == SparseFromDense_perform(b.format,
                    [i \in 1..b.shape[1] |->
                        [k \in 1..b.shape[2] |-> toarray(b)[i][k] - toarray(y)[i][k]]],
                    b.shape)
    IN  SeqSum([p \in 1..Nnz(diff) |-> Abs(diff.data[p])])

\* SparseConstantSignature.__eq__ with <= for the tolerance test
SparseConstantSignature_eq_le(self, other) ==
    /\ self.a = other.a
    /\ self.b.dtype = other.b.dtype
    /\ TypeOf(self.b) = TypeOf(other.b)
    /\ self.b.m.shape = other.b.m.shape
    /\ AbsDiffSum(self.b.m, other.b.m) <= Tolerance * Nnz(self.b.m)

\* SparseConstantSignature.__eq__: the conjuncts are tested in this order
SparseConstantSignature_eq(self, other) ==
    /\ self.a = other.a
    /\ self.b.dtype = other.b.dtype
    /\ TypeOf(self.b) = TypeOf(other.b)
    /\ self.b.m.shape = other.b.m.shape
    /\ AbsDiffSum(self.b.m, other.b.m) < Tolerance * Nnz(self.b.m)

\* SparseConstantSignature.__ne__
SparseConstantSignature_ne(self, other) == ~SparseConstantSignature_eq(self, other)

\* the dense values of the matrices compared: all zero for seed 0
SigMat(sh, s) == [i \in 1..sh[1] |-> [k \in 1..sh[2] |-> ((i + k) * s) % 3]]

\* d with a difference added: none, 3 or 4 units on the first entry, or one
\* unit on every entry
Perturb(d, v) ==
    [i \in 1..Len(d) |->
        [k \in 1..Len(d[1]) |->
            d[i][k] + (CASE v = 0 -> 0
                         [] v = 1 -> IF i = 1 /\ k = 1 THEN Tolerance - 1 ELSE 0
                         [] v = 2 -> IF i = 1 /\ k = 1 THEN Tolerance ELSE 0
                         [] v = 3 -> 1)]]

Perturbations == 0..3

InitSig ==
    /\ pc = "start"
    /\ \E sh \in SmallShapes, s \in 0..MaxSeed :
       \E fa \in sparse_formats, fx \in sparse_formats, fb \in sparse_formats,
          fy \in sparse_formats :
       \E da \in sparse_dtypes, db \in sparse_dtypes, dx \in sparse_dtypes,
          dy \in sparse_dtypes :
            \/ \E v \in Perturbations :
                inp = [self |-> Signature(fa, da, db,
                                    SparseFromDense_perform(fb, SigMat(sh, s), sh)),
                       other |-> Signature(fx, dx, dy,
                                    SparseFromDense_perform(fy,
                                        Perturb(SigMat(sh, s), v), sh))]
            \/ \E sh2 \in SmallShapes \ {sh} :
                inp = [self |-> Signature(fa, da, db,
                                    SparseFromDense_perform(fb, SigMat(sh, s), sh)),
                       other |-> Signature(fx, dx, dy,
                                    SparseFromDense_perform(fy, SigMat(sh2, s), sh2))]
    /\ loc = <<>>
    /\ out = <<>>
    /\ err = NoErr

\* self == other
SignatureEq ==
    /\ pc = "start"
    /\ out' = <<SparseConstantSignature_eq(inp.self, inp.other)>>
    /\ pc' = "eq"
    /\ UNCHANGED <<inp, loc, err>>

\* self != other
SignatureNe ==
    /\ pc = "start"
    /\ out' = <<SparseConstantSignature_ne(inp.self, inp.other)>>
    /\ pc' = "ne"
    /\ UNCHANGED <<inp, loc, err>>

NextSig == SignatureEq \/ SignatureNe

SpecSig == InitSig /\ [][NextSig]_vars

(***************************************************************************)
(* Properties of the signature.                                            *)
(***************************************************************************)
\* the sum over all positions of the absolute difference of two dense arrays
RECURSIVE RowAbsDiff(_, _, _)
RowAbsDiff(u, v, k) ==
    IF k > Len(u) THEN 0 ELSE Abs(u[k] - v[k]) + RowAbsDiff(u, v, k + 1)

RECURSIVE SumAbsDiff(_, _, _)
SumAbsDiff(d, e, i) ==
    IF i > Len(d) THEN 0 ELSE RowAbsDiff(d[i], e[i], 1) + SumAbsDiff(d, e, i + 1)

SameStructure ==
    /\ inp.self.a = inp.other.a
    /\ inp.self.b.dtype = inp.other.b.dtype
    /\ inp.self.b.m.format = inp.other.b.m.format
    /\ inp.self.b.m.shape = inp.other.b.m.shape

\* C8: two signatures (type, matrix) compare equal if and only if the types
\* are equal, the matrix dtypes are equal, the storage classes are equal, the
\* shapes are equal, and the sum of the absolute elementwise differences is
\* below 1e-6 times the number of stored entries (of the first matrix);
\* != is the negation.
C8_SignatureEquality ==
    /\ (pc = "eq") =>
            (out[1] <=>
                /\ SameStructure
                /\ SumAbsDiff(toarray(inp.self.b.m), toarray(inp.other.b.m), 1)
                        < Tolerance * Nnz(inp.self.b.m))
    /\ (pc = "ne") =>
            (out[1] <=>
                ~(/\ SameStructure
                  /\ SumAbsDiff(toarray(inp.self.b.m), toarray(inp.other.b.m), 1)
                        < Tolerance * Nnz(inp.self.b.m)))

\* two signatures found equal although their matrices differ
C8_Witness ==
    /\ pc = "eq"
    /\ out[1]
    /\ inp.self.b.m # inp.other.b.m
    /\ Nnz(inp.self.b.m) = 1

(***************************************************************************)
(* HStack and VStack: the stacked matrix and its gradient.                 *)
(***************************************************************************)
MaxBlocks == MaxDim

\* the axis along which the operator stacks: 1 (columns) for HStack, 0 for VStack
StackAxis(op) == IF op.class = "HStack" THEN 1 ELSE 0

\* HStack.__init__ / VStack.__init__: format defaults to csc
HStack_init(class, format, dtype) ==
    [class |-> class, format |-> IF format = "None" THEN "csc" ELSE format, dtype |-> dtype]

\* the sum of the first n sizes
RECURSIVE SizesBefore(_, _)
SizesBefore(sizes, n) == IF n = 0 THEN 0 ELSE sizes[n] + SizesBefore(sizes, n - 1)

\* Split(len(sizes))(d, axis, sizes): consecutive slices of d along axis
Split_perform(d, axis, sizes) ==
    [k \in 1..Len(sizes) |->
        IF axis = 1
        THEN [i \in 1..Len(d) |-> [c \in 1..sizes[k] |-> d[i][SizesBefore(sizes, k - 1) + c]]]
        ELSE [i \in 1..sizes[k] |-> d[SizesBefore(sizes, k - 1) + i]]]

\* scipy.sparse.hstack / vstack of the blocks, in the format asked for
HStack_perform(op, block) ==
    LET sizes == [k \in 1..Len(block) |-> block[k].shape[StackAxis(op) + 1]]
        total == SizesBefore(sizes, Len(sizes))
        blockOf(q) == CHOOSE k \in 1..Len(sizes) :
                        SizesBefore(sizes, k - 1) < q /\ q <= SizesBefore(sizes, k)
        shape == IF StackAxis(op) = 1 THEN <<block[1].shape[1], total>>
                 ELSE <<total, block[1].shape[2]>>
        arrays == [k \in 1..Len(block) |-> toarray(block[k])]
        d == [i \in 1..shape[1] |->
                [c \in 1..shape[2] |->
                    IF StackAxis(op) = 1
                    THEN arrays[blockOf(c)][i][c - SizesBefore(sizes, blockOf(c) - 1)]
                    ELSE arrays[blockOf(i)][i - SizesBefore(sizes, blockOf(i) - 1)][c]]]
    IN  SparseFromDense_perform(op.format, d, shape)

NoGradient == [none |-> TRUE, m |-> NoSparse]

\* HStack.grad giving every input its slice, whatever its dtype
HStack_grad_all(op, inputs, gz) ==
    LET dense == IF gz.sparse THEN toarray(gz.sp) ELSE gz.dn
        sizes == [k \in 1..Len(inputs) |-> inputs[k].shape[StackAxis(op) + 1]]
        split == Split_perform(dense, StackAxis(op), sizes)
    IN  [k \in 1..Len(inputs) |->
            [none |-> FALSE,
             m |-> SparseFromDense_perform(op.format, split[k], inputs[k].shape)]]

\* HStack.grad / VStack.grad, evaluated: one entry per input
HStack_grad(op, inputs, gz) ==
    LET dense == IF gz.sparse THEN toarray(gz.sp) ELSE gz.dn
        sizes == [k \in 1..Len(inputs) |-> inputs[k].shape[StackAxis(op) + 1]]
        split == Split_perform(dense, StackAxis(op), sizes)
    IN  [k \in 1..Len(inputs) |->
            IF inputs[k].dtype \in continuous_dtypes
            THEN [none |-> FALSE,
                  m |-> SparseFromDense_perform(op.format, split[k], inputs[k].shape)]
            ELSE NoGradient]

\* the shapes of n blocks that can be stacked along axis: `common` is the
\* shared size of the other axis
BlockShapes(n, axis, common) ==
    {[k \in 1..n |-> IF axis = 1 THEN <<common, w[k]>> ELSE <<w[k], common>>] :
        w \in [1..n -> 1..MaxDim]}

StackDtypes == {"float64", "int32"}

InitStack ==
    /\ pc = "start"
    /\ \E class \in {"HStack", "VStack"}, format \in {"None", "csr", "csc"} :
       \E n \in 1..MaxBlocks, common \in 1..MaxDim :
       \E shapes \in BlockShapes(n, IF class = "HStack" THEN 1 ELSE 0, common) :
       \E dtypes \in [1..n -> StackDtypes], gkind \in {"dense", "csr", "csc"} :
            LET op == HStack_init(class, format, "float64")
                s == (n + common) % (MaxSeed + 1)
                sizes == [k \in 1..n |-> shapes[k][StackAxis(op) + 1]]
                total == SizesBefore(sizes, n)
                gshape == IF class = "HStack" THEN <<common, total>> ELSE <<total, common>>
                g == DenseMat(gshape[1], gshape[2], s)
            IN  inp = [op |-> op,
                       inputs |-> [k \in 1..n |->
                            [dtype |-> dtypes[k], shape |-> shapes[k],
                             m |-> SparseFromDense_perform(
                                        IF k % 2 = 1 THEN "csr" ELSE "csc",
                                        DenseMat(shapes[k][1], shapes[k][2], (s + k) % (MaxSeed + 1)),
                                        shapes[k])]],
                       gz |-> [sparse |-> gkind # "dense",
                               sp |-> IF gkind = "dense" THEN NoSparse
                                      ELSE SparseFromDense_perform(gkind, g, gshape),
                               dn |-> IF gkind = "dense" THEN g ELSE <<>>]]
    /\ loc = <<>>
    /\ out = <<>>
    /\ err = NoErr

\* evaluation of the node: HStack.perform / VStack.perform
StackPerform ==
    /\ pc = "start"
    /\ out' = <<HStack_perform(inp.op, [k \in 1..Len(inp.inputs) |-> inp.inputs[k].m])>>
    /\ pc' = "stacked"
    /\ UNCHANGED <<inp, loc, err>>

\* evaluation of the gradients that HStack.grad / VStack.grad builds
StackGrad ==
    /\ pc = "start"
    /\ out' = HStack_grad(inp.op, inp.inputs, inp.gz)
    /\ pc' = "stackgrad"
    /\ UNCHANGED <<inp, loc, err>>

NextStack == StackPerform \/ StackGrad

SpecStack == InitStack /\ [][NextStack]_vars

(***************************************************************************)
(* Properties of the stacking operators.                                   *)
(***************************************************************************)
\* the dense output gradient
StackGz == IF inp.gz.sparse THEN toarray(inp.gz.sp) ELSE inp.gz.dn

\* the first row / column (0-based) of the slice of input k
StackOffset(k) ==
    SeqSum([j \in 1..(k - 1) |-> inp.inputs[j].shape[StackAxis(inp.op) + 1]])

\* C11: the gradient of hstack (vstack) gives input k the slice of the
\* densified output gradient that starts after the columns (rows) of inputs
\* 1..k-1 and has as many columns (rows) as input k, as a sparse matrix in
\* the operator's format, when the dtype of input k is continuous, and None
\* when it is an integer dtype.
C11_StackGradient ==
    (pc = "stackgrad") =>
        LET gz == StackGz
        IN
        /\ Len(out) = Len(inp.inputs)
        /\ \A k \in 1..Len(inp.inputs) :
            IF inp.inputs[k].dtype \in {"float64"}
            THEN /\ ~out[k].none
                 /\ out[k].m.format = inp.op.format
                 /\ out[k].m.shape = inp.inputs[k].shape
                 /\ toarray(out[k].m) =
                        [i \in 1..inp.inputs[k].shape[1] |->
                            [c \in 1..inp.inputs[k].shape[2] |->
                                IF inp.op.class = "HStack"
                                THEN gz[i][StackOffset(k) + c]
                                ELSE gz[StackOffset(k) + i][c]]]
            ELSE out[k] = NoGradient

\* a gradient of two inputs of different widths, the second continuous and
\* with a nonzero slice, the first an integer matrix
C11_Witness ==
    /\ pc = "stackgrad"
    /\ Len(inp.inputs) = 2
    /\ inp.op.class = "HStack"
    /\ inp.gz.sparse
    /\ inp.inputs[1].dtype = "int32"
    /\ inp.inputs[2].dtype = "float64"
    /\ inp.inputs[1].shape[2] # inp.inputs[2].shape[2]
    /\ out[1].none
    /\ ~out[2].none
    /\ Nnz(out[2].m) > 0

(***************************************************************************)
(* block_diag and SparseBlockDiagonal.                                     *)
(***************************************************************************)
\* the bits of a dtype name
DtypeBits(t) ==
    CASE t \in {"int8", "uint8"} -> 8
      [] t \in {"int16", "uint16", "float16"} -> 16
      [] t \in {"int32", "uint32", "float32"} -> 32
      [] t \in {"int64", "uint64", "float64", "complex64"} -> 64
      [] t \in {"complex128"} -> 128

DtypeKind(t) ==
    CASE t \in {"int8", "int16", "int32", "int64"} -> "int"
      [] t \in {"uint8", "uint16", "uint32", "uint64"} -> "uint"
      [] t \in {"float16", "float32", "float64"} -> "float"
      [] t \in {"complex64", "complex128"} -> "complex"

FloatOfBits(b) == CASE b = 16 -> "float16" [] b = 32 -> "float32" [] b = 64 -> "float64"

IntOfBits(b) == CASE b = 8 -> "int8" [] b = 16 -> "int16" [] b = 32 -> "int32" [] b = 64 -> "int64"

UIntOfBits(b) ==
    CASE b = 8 -> "uint8" [] b = 16 -> "uint16" [] b = 32 -> "uint32" [] b = 64 -> "uint64"

ComplexOfBits(b) == IF b <= 64 THEN "complex64" ELSE "complex128"

Max(a, b) == IF a >= b THEN a ELSE b

\* the smallest float that holds every value of an integer dtype (float64,
\* the widest, for the integers of 32 bits and more)
FloatHolding(t) == IF DtypeBits(t) >= 32 THEN 64 ELSE 2 * DtypeBits(t)

\* the bits of the float that holds the real part of a dtype
FloatBits(t) ==
    CASE DtypeKind(t) \in {"int", "uint"} -> FloatHolding(t)
      [] DtypeKind(t) = "float" -> DtypeBits(t)
      [] DtypeKind(t) = "complex" -> DtypeBits(t) \div 2

\* the bits of the signed integer that holds every value of an integer dtype
SignedBits(t) == IF DtypeKind(t) = "uint" THEN 2 * DtypeBits(t) ELSE DtypeBits(t)

\* upcast of two dtypes: the smallest dtype that represents both losslessly;
\* of a signed and an unsigned integer the smallest signed integer holding
\* both, and float64 when there is none
upcast(a, b) ==
    IF DtypeKind(a) = "int" /\ DtypeKind(b) = "int"
    THEN IntOfBits(Max(DtypeBits(a), DtypeBits(b)))
    ELSE IF DtypeKind(a) = "float" /\ DtypeKind(b) = "float"
    THEN FloatOfBits(Max(DtypeBits(a), DtypeBits(b)))
    ELSE IF DtypeKind(a) = "uint" /\ DtypeKind(b) = "uint"
    THEN UIntOfBits(Max(DtypeBits(a), DtypeBits(b)))
    ELSE IF DtypeKind(a) \in {"int", "uint"} /\ DtypeKind(b) \in {"int", "uint"}
    THEN (IF Max(SignedBits(a), SignedBits(b)) > 64 THEN "float64"
          ELSE IntOfBits(Max(SignedBits(a), SignedBits(b))))
    ELSE IF DtypeKind(a) = "complex" \/ DtypeKind(b) = "complex"
    THEN ComplexOfBits(2 * Max(FloatBits(a), FloatBits(b)))
    ELSE FloatOfBits(Max(FloatBits(a), FloatBits(b)))

\* _largest_common_dtype: the upcast of the dtypes of matrices 1..n
RECURSIVE largest_common_dtype(_, _)
largest_common_dtype(matrices, n) ==
    IF n = 1 THEN matrices[1].dtype
    ELSE upcast(largest_common_dtype(matrices, n - 1), matrices[n].dtype)

\* a matrix operand of block_diag: sparse (sp) or dense (dn)
BlockOperand(sparse, format, dtype, d) ==
    [sparse |-> sparse, dtype |-> dtype,
     sp |-> IF sparse THEN SparseFromDense_perform(format, d, DenseShape(d)) ELSE NoSparse,
     dn |-> IF sparse THEN <<>> ELSE d]

\* the values of an operand as a dense array
BlockArray(x) == IF x.sparse THEN toarray(x.sp) ELSE x.dn

\* SparseBlockDiagonal.make_node with the dtype of the first matrix
SparseBlockDiagonal_make_node_first(op, matrices) ==
    [kind |-> "SparseVariable", format |-> op.format,
     dtype |-> matrices[1].dtype, op |-> op, items |-> matrices]

\* SparseBlockDiagonal.make_node: the output variable of the node
SparseBlockDiagonal_make_node(op, matrices) ==
    [kind |-> "SparseVariable", format |-> op.format,
     dtype |-> largest_common_dtype(matrices, Len(matrices)), op |-> op, items |-> matrices]

\* SparseBlockDiagonal.__init__
SparseBlockDiagonal_init(n_inputs, format) == [n_inputs |-> n_inputs, format |-> format]

NoOp == SparseBlockDiagonal_init(0, "none")

\* block_diag(*matrices, format): format is "unset" when the caller gives none
block_diag(matrices, format) ==
    IF Len(matrices) = 1
    THEN [kind |-> "tuple", format |-> "none", dtype |-> "none", op |-> NoOp,
          items |-> matrices]
    ELSE SparseBlockDiagonal_make_node(
            SparseBlockDiagonal_init(Len(matrices), IF format = "unset" THEN "csc" ELSE format),
            matrices)

\* SparseBlockDiagonal.perform: scipy.sparse.block_diag(inputs, format)
SparseBlockDiagonal_perform(op, inputs) ==
    LET rows == [k \in 1..Len(inputs) |-> Len(BlockArray(inputs[k]))]
        cols == [k \in 1..Len(inputs) |-> Len(BlockArray(inputs[k])[1])]
        arrays == [k \in 1..Len(inputs) |-> BlockArray(inputs[k])]
        shape == <<SizesBefore(rows, Len(rows)), SizesBefore(cols, Len(cols))>>
        blockOf(q, sizes) == CHOOSE k \in 1..Len(sizes) :
                                SizesBefore(sizes, k - 1) < q /\ q <= SizesBefore(sizes, k)
        d == [i \in 1..shape[1] |->
                [c \in 1..shape[2] |->
                    IF blockOf(i, rows) = blockOf(c, cols)
                    THEN arrays[blockOf(i, rows)][i - SizesBefore(rows, blockOf(i, rows) - 1)]
                                                 [c - SizesBefore(cols, blockOf(c, cols) - 1)]
                    ELSE 0]]
    IN  SparseFromDense_perform(op.format, d, shape)

BlockDtypes == {"int32", "float32", "float64"}

\* the example of the docstring of block_diag
ExampleA == <<(<<1, 2>>), (<<3, 4>>)>>

ExampleB == <<(<<5, 6>>), (<<7, 8>>)>>

InitBlock ==
    /\ pc = "start"
    /\ \E format \in {"unset", "csr", "csc"} :
        \/ \E n \in 1..MaxBlocks :
           \E rows \in [1..n -> 1..MaxDim], dtypes \in [1..n -> BlockDtypes] :
                inp = [format |-> format,
                       matrices |-> [k \in 1..n |->
                            BlockOperand(k % 3 # 0, IF k % 2 = 1 THEN "csr" ELSE "csc", dtypes[k],
                                DenseMat(rows[k], ((rows[k] + k) % MaxDim) + 1,
                                         k % (MaxSeed + 1)))]]
        \/ inp = [format |-> format,
                  matrices |-> <<BlockOperand(TRUE, "csr", "int64", ExampleA),
                                 BlockOperand(TRUE, "csr", "int64", ExampleB)>>]
    /\ loc = [kind |-> "none", format |-> "none", dtype |-> "none", op |-> NoOp, items |-> <<>>]
    /\ out = <<>>
    /\ err = NoErr

\* the call block_diag(*matrices, format=format)
BlockDiagCall ==
    /\ pc = "start"
    /\ loc' = block_diag(inp.matrices, inp.format)
    /\ pc' = "returned"
    /\ UNCHANGED <<inp, out, err>>

\* evaluation of the node that the call built
BlockDiagPerform ==
    /\ pc = "returned"
    /\ loc.kind = "SparseVariable"
    /\ out' = <<SparseBlockDiagonal_perform(loc.op, loc.items)>>
    /\ pc' = "assembled"
    /\ UNCHANGED <<inp, loc, err>>

NextBlock == BlockDiagCall \/ BlockDiagPerform

SpecBlock == InitBlock /\ [][NextBlock]_vars

(***************************************************************************)
(* Properties of block_diag.                                               *)
(***************************************************************************)
RequestedFormat == IF inp.format = "unset" THEN "csc" ELSE inp.format

BlockRows(k) == Len(BlockArray(inp.matrices[k]))

BlockCols(k) == Len(BlockArray(inp.matrices[k])[1])

RowOffset(k) == SeqSum([j \in 1..(k - 1) |-> BlockRows(j)])

ColOffset(k) == SeqSum([j \in 1..(k - 1) |-> BlockCols(j)])

\* position (i, c), 1-based, lies in block k
InBlock(i, c, k) ==
    /\ RowOffset(k) < i /\ i <= RowOffset(k) + BlockRows(k)
    /\ ColOffset(k) < c /\ c <= ColOffset(k) + BlockCols(k)

\* the dtype that holds every input dtype and is held by every dtype that
\* does: the common upcast, stated without folding
IsCommonUpcast(t) ==
    /\ \A k \in 1..Len(inp.matrices) : upcast(inp.matrices[k].dtype, t) = t
    /\ \A u \in BlockDtypes \cup {"int64"} :
        (\A k \in 1..Len(inp.matrices) : upcast(inp.matrices[k].dtype, u) = u)
            => upcast(t, u) = u

C13_ReturnsSparseMatrix ==
    (pc = "returned") =>
        /\ loc.kind = "SparseVariable"
        /\ loc.format = RequestedFormat

\* a call with exactly one matrix has returned
C13_SingleInputReturned ==
    /\ pc = "returned"
    /\ Len(inp.matrices) = 1
    /\ loc.kind = "tuple"

(***************************************************************************)
(* Operator instances: the fields __init__ sets, the fields __props__      *)
(* names, and equality and hashing, which compare the class and the        *)
(* fields that __props__ names.                                            *)
(***************************************************************************)
ConfiguredClasses ==
    {"SparseFromDense", "DenseFromSparse", "SpSum", "TrueDot", "Remove0", "HStack", "VStack"}

\* __props__ of each class
Props(class) ==
    CASE class = "SparseFromDense" -> <<>>
      [] class = "DenseFromSparse" -> <<>>
      [] class = "SpSum" -> <<"axis">>
      [] class = "TrueDot" -> <<>>
      [] class = "Remove0" -> <<"inplace">>
      [] class \in {"HStack", "VStack"} -> <<"format", "dtype">>

\* a keyword argument that is left out takes its default
Default(arg, default) == IF arg = "unset" THEN default ELSE arg

\* the instance that Class(*args) builds: the fields its __init__ assigns
Op_init(class, args) ==
    [class |-> class,
     vals |->
        CASE class = "SparseFromDense" -> [format |-> args[1]]
          [] class = "DenseFromSparse" -> [sparse_grad |-> Default(args[1], "True")]
          [] class = "SpSum" ->
                [axis |-> SpSum_init(args[1], args[2]).axis,
                 structured |-> IF SpSum_init(args[1], args[2]).structured
                                THEN "True" ELSE "False"]
          [] class = "TrueDot" -> [grad_preserves_dense |-> Default(args[1], "True")]
          [] class = "Remove0" -> [inplace |-> Default(args[1], "False")]
          [] class \in {"HStack", "VStack"} ->
                [format |-> HStack_init(class, args[1], args[2]).format,
                 dtype |-> HStack_init(class, args[1], args[2]).dtype]]

\* the values of the fields that __props__ names
Op_props(op) == [k \in 1..Len(Props(op.class)) |-> op.vals[Props(op.class)[k]]]

\* a == b for two operator instances
Op_eq(a, b) == a.class = b.class /\ Op_props(a) = Op_props(b)

\* hash(a): equal for equal class and props
Op_hash(a) == <<a.class, Op_props(a)>>

\* what an instance decides of the node it builds on given inputs: the
\* output type, the gradient rule, and whether it works in place
Op_node(op) ==
    CASE op.class = "SparseFromDense" ->
            [out_type |-> <<"sparse", op.vals.format>>, grad |-> "dense_from_sparse",
             inplace |-> "False"]
      [] op.class = "DenseFromSparse" ->
            [out_type |-> <<"dense">>,
             grad |-> IF op.vals.sparse_grad = "True" THEN "structured" ELSE "regular",
             inplace |-> "False"]
      [] op.class = "SpSum" ->
            [out_type |-> <<"dense", IF op.vals.axis = "None" THEN "scalar" ELSE "vector">>,
             grad |-> IF op.vals.structured = "True" THEN "structured" ELSE "regular",
             inplace |-> "False"]
      [] op.class = "TrueDot" ->
            [out_type |-> <<"sparse">>,
             grad |-> IF op.vals.grad_preserves_dense = "True" THEN "preserves_dense"
                      ELSE "sparse",
             inplace |-> "False"]
      [] op.class = "Remove0" ->
            [out_type |-> <<"sparse">>, grad |-> "identity", inplace |-> op.vals.inplace]
      [] op.class \in {"HStack", "VStack"} ->
            [out_type |-> <<"sparse", op.vals.format, op.vals.dtype>>, grad |-> "split",
             inplace |-> "False"]

Flags == {"unset", "True", "False"}

\* the constructor calls: the class and its arguments
ConstructorCalls ==
    {[class |-> "SparseFromDense", args |-> <<f, "unset">>] : f \in sparse_formats}
    \cup {[class |-> c, args |-> <<b, "unset">>] :
            c \in {"DenseFromSparse", "TrueDot", "Remove0"}, b \in Flags}
    \cup {[class |-> "SpSum", args |-> <<a, b>>] : a \in {"unset", "None", "0", "1"}, b \in Flags}
    \cup {[class |-> c, args |-> <<f, d>>] :
            c \in {"HStack", "VStack"}, f \in {"None", "csr", "csc"}, d \in sparse_dtypes}

NoInstance == [class |-> "none", vals |-> <<>>]

InitProps ==
    /\ pc = "start"
    /\ inp \in [a : ConstructorCalls, b : ConstructorCalls]
    /\ loc = [a |-> NoInstance, b |-> NoInstance]
    /\ out = <<>>
    /\ err = NoErr

\* the two instances are built
OpConstruct ==
    /\ pc = "start"
    /\ loc' = [a |-> Op_init(inp.a.class, inp.a.args), b |-> Op_init(inp.b.class, inp.b.args)]
    /\ pc' = "built"
    /\ UNCHANGED <<inp, out, err>>

\* a == b and hash(a) == hash(b)
OpCompare ==
    /\ pc = "built"
    /\ out' = <<Op_eq(loc.a, loc.b), Op_hash(loc.a) = Op_hash(loc.b)>>
    /\ pc' = "compared"
    /\ UNCHANGED <<inp, loc, err>>

\* each instance builds its node
OpMakeNode ==
    /\ pc = "built"
    /\ out' = <<Op_node(loc.a), Op_node(loc.b)>>
    /\ pc' = "nodes"
    /\ UNCHANGED <<inp, loc, err>>

NextProps == OpConstruct \/ OpCompare \/ OpMakeNode

SpecProps == InitProps /\ [][NextProps]_vars

(***************************************************************************)
(* Properties of operator equality.                                        *)
(***************************************************************************)
\* C15: two instances of one class that differ in a configuration field
\* compare unequal, so instances that compare equal build nodes of the same
\* output type and the same gradient rule.
C15_AllFieldsInEquality ==
    (pc = "compared" /\ loc.a.class = loc.b.class) =>
        /\ (loc.a.vals # loc.b.vals) => ~out[1]
        /\ out[1] => (/\ Op_node(loc.a).out_type = Op_node(loc.b).out_type
                      /\ Op_node(loc.a).grad = Op_node(loc.b).grad)

\* SparseFromDense("csr") and SparseFromDense("csc") compare equal, hash alike
\* and build outputs of different formats
C15_EqualWithDifferentFormat ==
    /\ pc = "compared"
    /\ loc.a.class = "SparseFromDense"
    /\ loc.b.class = "SparseFromDense"
    /\ loc.a.vals.format = "csr"
    /\ loc.b.vals.format = "csc"
    /\ out = <<TRUE, TRUE>>
    /\ Op_node(loc.a).out_type # Op_node(loc.b).out_type

(***************************************************************************)
(* true_dot and the gradient of TrueDot.  A variable is modelled with the  *)
(* value it evaluates to, as for structured_dot; dtypes are left out.      *)
(***************************************************************************)
\* _is_dense_variable
is_dense_variable(v) == v.kind = "TensorVariable"

\* the value of a variable as a 2-d array
ArrayOf(v) == IF is_sparse_variable(v) THEN toarray(v.sp) ELSE v.dn

NoTrueDot == [grad_preserves_dense |-> FALSE, x |-> DenseOperand(0, <<>>),
              y |-> DenseOperand(0, <<>>), out_format |-> "none", transposed |-> FALSE]

\* TrueDot.make_node: x must be sparse; the output is sparse, in x's format
TrueDot_make_node(grad_preserves_dense, x, y) ==
    IF ~is_sparse_variable(x)
    THEN [err |-> Raise("TypeError", "x"), node |-> NoTrueDot]
    ELSE [err |-> NoErr,
          node |-> [grad_preserves_dense |-> grad_preserves_dense, x |-> x, y |-> y,
                    out_format |-> IF x.sp.format = "csc" THEN "csc" ELSE "csr",
                    transposed |-> FALSE]]

\* TrueDot.perform: x.dot(y), made sparse in x's format when y is dense
TrueDot_perform(x, y) ==
    IF is_sparse_variable(y) THEN sparse_times_sparse(x.sp, y.sp)
    ELSE SparseFromDense_perform(x.sp.format, sparse_times_dense(x.sp, y.dn),
                                 <<x.sp.shape[1], Len(y.dn[1])>>)

\* the output variable of the node TrueDot(...)(x, y)
TrueDot_call(x, y) == SparseOperand("SparseVariable", TrueDot_perform(x, y))

\* true_dot(x, y, grad_preserves_dense): the node and the variable returned
true_dot(x0, y0, grad_preserves_dense) ==
    LET x == as_sparse_variable(x0)
        y == as_sparse_variable(y0)
    IN  IF ~is_sparse_variable(x) /\ ~is_sparse_variable(y)
        THEN [err |-> Raise("TypeError", ""), node |-> NoTrueDot, var |-> DenseOperand(0, <<>>)]
        ELSE IF is_sparse_variable(x)
        THEN [err |-> NoErr, node |-> TrueDot_make_node(grad_preserves_dense, x, y).node,
              var |-> TrueDot_call(x, y)]
        ELSE [err |-> NoErr,
              node |-> [TrueDot_make_node(grad_preserves_dense, VariableT(y), VariableT(x)).node
                            EXCEPT !.transposed = TRUE],
              var |-> VariableT(TrueDot_call(VariableT(y), VariableT(x)))]

\* dense_from_sparse(v)
dense_from_sparse(v) == DenseOperand(2, toarray(v.sp))

\* TrueDot.grad densifying the right gradient of every dense y
TrueDot_grad_densify(node, gz) ==
    IF ~is_sparse_variable(gz) \/ ~is_sparse_variable(node.x)
    THEN [err |-> Raise("AssertionError", ""), rval |-> <<>>]
    ELSE LET rval == <<true_dot(gz, VariableT(node.y), TRUE).var,
                       true_dot(VariableT(node.x), gz, TRUE).var>>
         IN  [err |-> NoErr,
              rval |-> IF is_dense_variable(node.y)
                       THEN <<rval[1], dense_from_sparse(rval[2])>>
                       ELSE rval]

\* TrueDot.grad for the node's inputs (x, y) and the output gradient gz
TrueDot_grad(node, gz) ==
    IF ~is_sparse_variable(gz) \/ ~is_sparse_variable(node.x)
    THEN [err |-> Raise("AssertionError", ""), rval |-> <<>>]
    ELSE LET rval == <<true_dot(gz, VariableT(node.y), TRUE).var,
                       true_dot(VariableT(node.x), gz, TRUE).var>>
         IN  [err |-> NoErr,
              rval |-> IF is_dense_variable(node.y) /\ node.grad_preserves_dense
                       THEN <<rval[1], dense_from_sparse(rval[2])>>
                       ELSE rval]

\* a variable of the given kind ("dense", "csr" or "csc") bound to the array d
VariableOf(kind, d) ==
    IF kind = "dense" THEN DenseOperand(2, d)
    ELSE SparseOperand("SparseVariable", SparseFromDense_perform(kind, d, DenseShape(d)))

TrueDotKinds == {"dense", "csr", "csc"}

\* x is r by c, y is c by k; gz has the shape of the TrueDot node's output:
\* r by k, or k by r when x is dense and true_dot transposes its operands
InitTrueDot ==
    /\ pc = "start"
    /\ \E r \in 1..MaxDim, c \in 1..MaxDim, k \in 1..MaxDim, s \in 0..MaxSeed :
       \E kx \in TrueDotKinds, ky \in TrueDotKinds, kg \in TrueDotKinds, g \in BOOLEAN :
            inp = [x |-> VariableOf(kx, DenseMat(r, c, s)),
                   y |-> VariableOf(ky, DenseMat(c, k, MaxSeed - s)),
                   gz |-> VariableOf(kg, IF kx = "dense" THEN DenseMat(k, r, s)
                                         ELSE DenseMat(r, k, s)),
                   grad_preserves_dense |-> g]
    /\ loc = [node |-> NoTrueDot, var |-> DenseOperand(0, <<>>)]
    /\ out = <<>>
    /\ err = NoErr

\* true_dot(x, y, grad_preserves_dense)
TrueDotCall ==
    /\ pc = "start"
    /\ LET r == true_dot(inp.x, inp.y, inp.grad_preserves_dense)
       IN  /\ loc' = [node |-> r.node, var |-> r.var]
           /\ err' = r.err
           /\ pc' = IF r.err = NoErr THEN "node" ELSE "rejected"
    /\ UNCHANGED <<inp, out>>

\* evaluation of the variable true_dot returned
TrueDotPerform ==
    /\ pc = "node"
    /\ out' = <<loc.var>>
    /\ pc' = "performed"
    /\ UNCHANGED <<inp, loc, err>>

\* TrueDot.grad on the node true_dot built
TrueDotGrad ==
    /\ pc = "node"
    /\ LET r == TrueDot_grad(loc.node, inp.gz)
       IN  /\ out' = r.rval
           /\ err' = r.err
           /\ pc' = IF r.err = NoErr THEN "grad" ELSE "grad_failed"
    /\ UNCHANGED <<inp, loc>>

NextTrueDot == TrueDotCall \/ TrueDotPerform \/ TrueDotGrad

SpecTrueDot == InitTrueDot /\ [][NextTrueDot]_vars

(***************************************************************************)
(* Properties of the gradient of TrueDot.                                  *)
(***************************************************************************)
\* C16: for the inputs (x, y) of a TrueDot node and the output gradient gz,
\* the left gradient is the sparse product gz . y^T and the right gradient
\* is the product x^T . gz; the right gradient is dense exactly when y is a
\* dense variable and grad_preserves_dense is True, and sparse otherwise.
C16_TrueDotGradient ==
    pc = "grad" =>
        /\ is_sparse_variable(out[1])
        /\ toarray(out[1].sp) = DenseProduct(ArrayOf(inp.gz), DenseT(ArrayOf(loc.node.y)))
        /\ ArrayOf(out[2]) = DenseProduct(DenseT(ArrayOf(loc.node.x)), ArrayOf(inp.gz))
        /\ is_dense_variable(out[2])
              <=> (is_dense_variable(loc.node.y) /\ loc.node.grad_preserves_dense)
        /\ ~is_dense_variable(out[2]) => is_sparse_variable(out[2])

\* a gradient was taken for a dense y with grad_preserves_dense False: the
\* right gradient is sparse and not zero
C16_Witness ==
    /\ pc = "grad"
    /\ is_dense_variable(loc.node.y)
    /\ ~loc.node.grad_preserves_dense
    /\ is_sparse_variable(out[2])
    /\ Nnz(out[2].sp) > 0
    /\ Nnz(out[1].sp) > 0

(***************************************************************************)
(* sampling_dot(x, y, p): the product x . y^T kept on the pattern of p.    *)
(***************************************************************************)
\* p.multiply(d) for a 2-d array d of p's shape: the stored entries of p, in
\* coordinate form, each multiplied by the value of d at its position
multiply_dense(p, d) ==
    [row |-> [q \in 1..Nnz(p) |-> RowOf(p, q)],
     col |-> [q \in 1..Nnz(p) |-> ColOf(p, q)],
     data |-> [q \in 1..Nnz(p) |-> p.data[q] * At2(d, RowOf(p, q), ColOf(p, q))],
     shape |-> p.shape]

\* csr_matrix(c) / csc_matrix(c) of a matrix in coordinate form: the entries
\* sorted by slice and minor index, duplicates of a position added up, zero
\* values kept
coo_asformat(format, c0) ==
    LET c == [row |-> Array(c0.row), col |-> Array(c0.col), data |-> Array(c0.data)]
        major == c0.shape[MajorAxis(format)]
        minor == c0.shape[MinorAxis(format)]
        has == Array([r \in 1..c0.shape[1] |->
                 Array([k \in 1..c0.shape[2] |->
                    IF \E q \in 1..Len(c.row) : c.row[q] = r - 1 /\ c.col[q] = k - 1
                    THEN 1 ELSE 0])])
        indices == ConcatSlices(has, format, 0, major, minor)
        indptr == Array([q \in 1..(major + 1) |->
                    Len(indices) - Len(ConcatSlices(has, format, q - 1, major, minor))])
    IN  [format |-> format,
         data |-> [k \in 1..Len(indices) |->
                    LET i == SliceOfPos(indptr, k)
                        r == IF format = "csr" THEN i ELSE indices[k]
                        cc == IF format = "csr" THEN indices[k] ELSE i
                    IN  SeqSum([q \in 1..Len(c.row) |->
                            IF c.row[q] = r /\ c.col[q] = cc THEN c.data[q] ELSE 0])],
         indices |-> indices,
         indptr |-> indptr,
         shape |-> c0.shape]

\* SamplingDot.make_node: the output has the type of p
SamplingDot_make_node(x, y, p) ==
    IF ~is_sparse_variable(as_sparse_variable(p))
    THEN [err |-> Raise("TypeError", "p"), out_format |-> "none"]
    ELSE [err |-> NoErr, out_format |-> p.sp.format]

\* SamplingDot.perform taking p for a mask of ones
SamplingDot_perform_binary(x, y, p) ==
    IF is_sparse_variable(x) THEN [err |-> Raise("TypeError", "x"), val |-> NoSparse]
    ELSE IF is_sparse_variable(y) THEN [err |-> Raise("TypeError", "y"), val |-> NoSparse]
    ELSE IF ~is_sparse_variable(p) THEN [err |-> Raise("TypeError", "p"), val |-> NoSparse]
    ELSE IF Len(x.dn[1]) # Len(y.dn[1])
    THEN [err |-> Raise("ValueError", "shapes not aligned"), val |-> NoSparse]
    ELSE [err |-> NoErr,
          val |-> coo_asformat(p.sp.format,
                    multiply_dense(sp_ones_like(p.sp), DenseProduct(x.dn, DenseT(y.dn))))]

\* SamplingDot.perform: p.__class__(p.multiply(np.dot(x, y.T)))
SamplingDot_perform(x, y, p) ==
    IF is_sparse_variable(x) THEN [err |-> Raise("TypeError", "x"), val |-> NoSparse]
    ELSE IF is_sparse_variable(y) THEN [err |-> Raise("TypeError", "y"), val |-> NoSparse]
    ELSE IF ~is_sparse_variable(p) THEN [err |-> Raise("TypeError", "p"), val |-> NoSparse]
    ELSE IF Len(x.dn[1]) # Len(y.dn[1])
    THEN [err |-> Raise("ValueError", "shapes not aligned"), val |-> NoSparse]
    ELSE [err |-> NoErr,
          val |-> coo_asformat(p.sp.format,
                    multiply_dense(p.sp, DenseProduct(x.dn, DenseT(y.dn))))]

\* p is m by n (unsorted and duplicated entries included), x is m by k and
\* y is n by k2; x or y may be bound to a sparse value
InitSampling ==
    /\ pc = "start"
    /\ \E p \in SmallMatrices, k \in 1..MaxDim, k2 \in 1..MaxDim :
       \E kx \in {"dense", "csr"}, ky \in {"dense", "csc"} :
            /\ p.data = DataVec(Nnz(p), (Nnz(p) + k) % (MaxSeed + 1))
            /\ (kx # "dense" \/ ky # "dense") => (k = 1 /\ k2 = 1)
            /\ inp = [x |-> VariableOf(kx, DenseMat(p.shape[1], k, k % (MaxSeed + 1))),
                      y |-> VariableOf(ky, DenseMat(p.shape[2], k2, (k + 1) % (MaxSeed + 1))),
                      p |-> SparseOperand("SparseVariable", p)]
    /\ loc = [out_format |-> "none"]
    /\ out = <<>>
    /\ err = NoErr

\* sampling_dot(x, y, p) builds its node
SamplingMakeNode ==
    /\ pc = "start"
    /\ LET r == SamplingDot_make_node(inp.x, inp.y, inp.p)
       IN  /\ loc' = [out_format |-> r.out_format]
           /\ err' = r.err
           /\ pc' = IF r.err = NoErr THEN "node" ELSE "rejected"
    /\ UNCHANGED <<inp, out>>

\* SamplingDot.perform on the values of the inputs
SamplingPerform ==
    /\ pc = "node"
    /\ LET r == SamplingDot_perform(inp.x, inp.y, inp.p)
       IN  /\ out' = IF r.err = NoErr THEN <<r.val>> ELSE <<>>
           /\ err' = r.err
           /\ pc' = IF r.err = NoErr THEN "sampled" ELSE "raised"
    /\ UNCHANGED <<inp, loc>>

NextSampling == SamplingMakeNode \/ SamplingPerform

SpecSampling == InitSampling /\ [][NextSampling]_vars

(***************************************************************************)
(* Properties of sampling_dot.                                             *)
(***************************************************************************)
\* C17: every entry (i, j) of sampling_dot(x, y, p) is p[i, j] times the sum
\* over k of x[i, k] * y[j, k]; a position where p stores nothing is zero in
\* the output, and the output has the storage format (and type) of p.
C17_SamplingDot ==
    pc = "sampled" =>
        /\ out[1].format = inp.p.sp.format
        /\ loc.out_format = inp.p.sp.format
        /\ out[1].shape = inp.p.sp.shape
        /\ \A i \in 0..(inp.p.sp.shape[1] - 1), j \in 0..(inp.p.sp.shape[2] - 1) :
            /\ At2(toarray(out[1]), i, j)
                 = At2(toarray(inp.p.sp), i, j) * Dot(inp.x.dn[i + 1], inp.y.dn[j + 1])
            /\ ~Stored(inp.p.sp, i, j) =>
                 (At2(toarray(out[1]), i, j) = 0 /\ ~Stored(out[1], i, j))

\* a mask with a stored value other than 0 and 1 and an empty position was
\* applied to a product that is nonzero at that empty position
C17_Witness ==
    /\ pc = "sampled"
    /\ \E q \in 1..Nnz(inp.p.sp) : inp.p.sp.data[q] \notin {0, 1}
    /\ \E i \in 0..(inp.p.sp.shape[1] - 1), j \in 0..(inp.p.sp.shape[2] - 1) :
        /\ ~Stored(inp.p.sp, i, j)
        /\ Dot(inp.x.dn[i + 1], inp.y.dn[j + 1]) # 0
    /\ \E i \in 0..(inp.p.sp.shape[1] - 1), j \in 0..(inp.p.sp.shape[2] - 1) :
        At2(toarray(out[1]), i, j) \notin {0, At2(toarray(inp.p.sp), i, j)}

(***************************************************************************)
(* col_scale and row_scale evaluated on a matrix and a vector.             *)
(***************************************************************************)
\* a dense vector of n values
ScaleVec(n, seed) == [k \in 1..n |-> 2 * k + seed - 2]

\* the graph col_scale(x, s) evaluated: ColScaleCSC.perform and
\* RowScaleCSC.perform assert the length of s
col_scale_eval(x, s) ==
    IF Len(s) # x.shape[2] THEN [err |-> Raise("AssertionError", ""), val |-> NoSparse]
    ELSE [err |-> NoErr, val |-> col_scale(x, s)]

\* the graph row_scale(x, s) evaluated
row_scale_eval(x, s) ==
    IF Len(s) # x.shape[1] THEN [err |-> Raise("AssertionError", ""), val |-> NoSparse]
    ELSE [err |-> NoErr, val |-> row_scale(x, s)]

InitScale ==
    /\ pc = "start"
    /\ \E x \in SmallMatrices, n \in 1..MaxDim :
            /\ x.data = DataVec(Nnz(x), (Nnz(x) + n) % (MaxSeed + 1))
            /\ inp = [x |-> x, s |-> ScaleVec(n, x.shape[1] % (MaxSeed + 1))]
    /\ loc = <<>>
    /\ out = <<>>
    /\ err = NoErr

\* col_scale(x, s) is built and evaluated
ColScale ==
    /\ pc = "start"
    /\ LET r == col_scale_eval(inp.x, inp.s)
       IN  /\ out' = IF r.err = NoErr THEN <<r.val>> ELSE <<>>
           /\ err' = r.err
           /\ pc' = IF r.err = NoErr THEN "col_scaled" ELSE "raised"
    /\ UNCHANGED <<inp, loc>>

\* row_scale(x, s) is built and evaluated
RowScale ==
    /\ pc = "start"
    /\ LET r == row_scale_eval(inp.x, inp.s)
       IN  /\ out' = IF r.err = NoErr THEN <<r.val>> ELSE <<>>
           /\ err' = r.err
           /\ pc' = IF r.err = NoErr THEN "row_scaled" ELSE "raised"
    /\ UNCHANGED <<inp, loc>>

NextScale == ColScale \/ RowScale

SpecScale == InitScale /\ [][NextScale]_vars

(***************************************************************************)
(* Properties of col_scale and row_scale.                                  *)
(***************************************************************************)
\* C18: col_scale(x, s) multiplies the stored entry at (i, j) by s[j] and
\* row_scale(x, s) multiplies it by s[i], for csc and csr x alike; the result
\* has the format, the shape and the stored pattern of x.
C18_Scale ==
    pc \in {"col_scaled", "row_scaled"} =>
        /\ out[1].format = inp.x.format
        /\ out[1].shape = inp.x.shape
        /\ out[1].indices = inp.x.indices
        /\ out[1].indptr = inp.x.indptr
        /\ Len(out[1].data) = Nnz(inp.x)
        /\ \A q \in 1..Nnz(inp.x) :
            out[1].data[q] = inp.x.data[q] * At(inp.s, IF pc = "col_scaled" THEN ColOf(inp.x, q)
                                                        ELSE RowOf(inp.x, q))

\* a csr matrix with a stored entry off the diagonal was scaled by columns
\* with a vector of distinct values, and the entry changed
C18_Witness ==
    /\ pc = "col_scaled"
    /\ inp.x.format = "csr"
    /\ \E q \in 1..Nnz(inp.x) :
        /\ RowOf(inp.x, q) # ColOf(inp.x, q)
        /\ RowOf(inp.x, q) < Len(inp.s)
        /\ At(inp.s, RowOf(inp.x, q)) # At(inp.s, ColOf(inp.x, q))
        /\ out[1].data[q] # inp.x.data[q]
        /\ out[1].data[q] # inp.x.data[q] * At(inp.s, RowOf(inp.x, q))

\* a csc matrix with a stored entry off the diagonal was scaled by rows
C18_WitnessRows ==
    /\ pc = "row_scaled"
    /\ inp.x.format = "csc"
    /\ \E q \in 1..Nnz(inp.x) :
        /\ RowOf(inp.x, q) # ColOf(inp.x, q)
        /\ out[1].data[q] # inp.x.data[q]

(***************************************************************************)
(* Casts in gradient rules.  A value is an integer count of the finest     *)
(* step of float64; a narrower float holds only the multiples of its own   *)
(* step, and a cast rounds to the step of its target.                      *)
(***************************************************************************)
float_dtypes == {"float16", "float32", "float64"}

\* the step of a float dtype, in steps of float64
Grain(dtype) == CASE dtype = "float64" -> 1 [] dtype = "float32" -> 2 [] dtype = "float16" -> 4

\* the value 1.0
One == Grain("float16")

\* a variable of a dtype bound to a value, with the casts applied to it
Typed(dtype, val) == [dtype |-> dtype, val |-> val, casts |-> <<>>]

\* v.astype(dtype): a Cast node on v
astype(v, dtype) ==
    [dtype |-> dtype, val |-> v.val - (v.val % Grain(dtype)), casts |-> Append(v.casts, dtype)]

\* mul(x, y) for a sparse x: casts a float32 x for a float64 y; the output of
\* mul_s_s / mul_s_d has the upcast of the two dtypes
mul(x, y) ==
    LET x1 == IF y.dtype = "float64" /\ x.dtype = "float32" THEN astype(x, "float64") ELSE x
    IN  [x |-> x1, y |-> y, dtype |-> upcast(x1.dtype, y.dtype)]

\* DenseFromSparse.grad casting the wider operand down
DenseFromSparse_grad_downcast(sparse_grad, x, gz) ==
    IF sparse_grad
    THEN LET left0 == Typed(x.dtype, One)
             left == IF gz.dtype = "float64" /\ left0.dtype = "float32"
                     THEN astype(left0, "float64") ELSE left0
             left1 == IF gz.dtype = "float32" /\ left.dtype = "float64"
                      THEN astype(left, "float32") ELSE left
         IN  [structured |-> TRUE, left |-> left1, right |-> gz, product |-> mul(left1, gz)]
    ELSE [structured |-> FALSE, left |-> x, right |-> gz,
          product |-> [x |-> gz, y |-> gz, dtype |-> gz.dtype]]

\* DenseFromSparse.grad: sp_ones_like(x) * gz after the casts, or
\* SparseFromDense(format)(gz)
DenseFromSparse_grad(sparse_grad, x, gz) ==
    IF sparse_grad
    THEN LET left0 == Typed(x.dtype, One)
             left == IF gz.dtype = "float64" /\ left0.dtype = "float32"
                     THEN astype(left0, "float64") ELSE left0
             right == IF gz.dtype = "float32" /\ left.dtype = "float64"
                      THEN astype(gz, "float64") ELSE gz
         IN  [structured |-> TRUE, left |-> left, right |-> right, product |-> mul(left, right)]
    ELSE [structured |-> FALSE, left |-> x, right |-> gz,
          product |-> [x |-> gz, y |-> gz, dtype |-> gz.dtype]]

\* MulSV.make_node raises for differing dtypes
MulSV_make_node(x, y) ==
    IF x.dtype # y.dtype
    THEN RaiseWith("NotImplementedError", "MulSV not implemented for differing dtypes.",
                   <<x.dtype, y.dtype>>)
    ELSE NoErr

\* MulSV.grad: mul_s_v(gz, y) after the casts, and sp_sum(x * gz, axis=0)
MulSV_grad(x, y0, gz0) ==
    LET y == IF gz0.dtype = "float64" /\ y0.dtype = "float32" THEN astype(y0, "float64") ELSE y0
        gz == IF gz0.dtype = "float32" /\ y.dtype = "float64" THEN astype(gz0, "float64") ELSE gz0
    IN  [err |-> MulSV_make_node(gz, y), left |-> gz, right |-> y, product |-> mul(x, gz)]

\* the first MaxSeed + 2 positive values a dtype holds
ValuesOf(dtype) == {Grain(dtype) * k : k \in 1..(MaxSeed + 2)}

\* x and y have one dtype (MulSV.make_node), gz has any
InitCast ==
    /\ pc = "start"
    /\ \E dx \in float_dtypes, dg \in float_dtypes, g \in BOOLEAN :
       \E vx \in ValuesOf(dx), vg \in ValuesOf(dg) :
            inp = [x |-> Typed(dx, vx), y |-> Typed(dx, vx), gz |-> Typed(dg, vg),
                   sparse_grad |-> g]
    /\ loc = <<>>
    /\ out = <<>>
    /\ err = NoErr

\* the gradient of dense_from_sparse(x) is built
DenseFromSparseGrad ==
    /\ pc = "start"
    /\ out' = <<DenseFromSparse_grad(inp.sparse_grad, inp.x, inp.gz)>>
    /\ pc' = IF inp.sparse_grad THEN "combined" ELSE "converted"
    /\ loc' = <<"DenseFromSparse">>
    /\ UNCHANGED <<inp, err>>

\* the gradient of mul_s_v(x, y) is built
MulSVGrad ==
    /\ pc = "start"
    /\ LET r == MulSV_grad(inp.x, inp.y, inp.gz)
       IN  /\ out' = <<r>>
           /\ err' = r.err
           /\ pc' = IF r.err = NoErr THEN "combined" ELSE "unimplemented"
    /\ loc' = <<"MulSV">>
    /\ UNCHANGED inp

NextCast == DenseFromSparseGrad \/ MulSVGrad

SpecCast == InitCast /\ [][NextCast]_vars

(***************************************************************************)
(* Properties of the casts in gradient rules.                              *)
(***************************************************************************)
\* the operands a rule combines, before its casts: sp_ones_like(x) and gz
\* for DenseFromSparse, gz and y for MulSV
CombinedBefore ==
    IF loc[1] = "DenseFromSparse" THEN <<Typed(inp.x.dtype, One), inp.gz>>
    ELSE <<inp.gz, inp.y>>

CombinedAfter == <<out[1].left, out[1].right>>

\* C19: in the structured gradient of DenseFromSparse and in the gradient of
\* MulSV, of a float32 and a float64 operand the float32 one is cast to
\* float64 and the float64 one is left as it is; operands of one dtype are
\* not cast; no operand is cast to a narrower dtype (nor loses its value).
C19_NoDowncast ==
    pc \in {"combined", "unimplemented"} =>
        \A k \in 1..2 :
            LET before == CombinedBefore[k]
                other == CombinedBefore[3 - k]
                after == CombinedAfter[k]
            IN  /\ (before.dtype = "float32" /\ other.dtype = "float64")
                        => after = astype(before, "float64")
                /\ (before.dtype = "float64" /\ other.dtype = "float32") => after = before
                /\ before.dtype = other.dtype => after = before
                /\ Grain(after.dtype) <= Grain(before.dtype)
                /\ after.val = before.val

\* a float32 operand met a float64 output gradient holding a value float32
\* does not hold, and was cast
C19_Witness ==
    /\ pc = "combined"
    /\ inp.x.dtype = "float32"
    /\ inp.gz.dtype = "float64"
    /\ inp.gz.val % Grain("float32") # 0
    /\ out[1].left.dtype = "float64"
    /\ out[1].right.dtype = "float64"
    /\ out[1].right.val = inp.gz.val

(***************************************************************************)
(* Requested gradients through a node whose rule declines an input.  The   *)
(* graph is one node, a cost computed from its output, and above each      *)
(* float input either nothing (the input is a graph input) or one          *)
(* differentiable node with a graph input of its own; index inputs are     *)
(* graph inputs.  Variable k is input k of the node, variable n + k the    *)
(* graph input above input k.                                              *)
(***************************************************************************)
GradOps == {"GetItemList", "GetItem2Lists", "SamplingDot"}

NodeInputs(op) == IF op = "SamplingDot" THEN <<"x", "y", "p">> ELSE OpInputs(op)

\* SamplingDot.grad declining y as well as p
SamplingDot_grad_declining == <<"gradient", "undefined", "undefined">>

\* SamplingDot.grad: [dot(p * gz, y), dot((p * gz).T, x), grad_not_implemented(self, 2, p)]
SamplingDot_grad == <<"gradient", "gradient", "undefined">>

\* the local gradient rule of the node
L_op(op) == IF op = "SamplingDot" THEN SamplingDot_grad ELSE grad(op)

\* the float inputs, which may be computed from a graph input
FloatInputs(op) == {k \in 1..Len(NodeInputs(op)) : NodeInputs(op)[k] \in {"x", "y", "p"}}

\* the graph inputs: the underived inputs of the node and the inputs above
\* the derived ones
GraphInputs(op, derived) ==
    {k \in 1..Len(NodeInputs(op)) : k \notin derived}
    \cup {Len(NodeInputs(op)) + k : k \in derived}

\* the reverse traversal: the contribution to a node input is the term its
\* rule returned; a node above passes a gradient on as a gradient and a
\* sentinel as that sentinel
accumulate(op, terms) ==
    [v \in 1..(2 * Len(NodeInputs(op))) |->
        IF v <= Len(NodeInputs(op)) THEN terms[v] ELSE terms[v - Len(NodeInputs(op))]]

\* the end of grad(cost, wrt): an undefined gradient of a requested variable
\* is an error, otherwise the requested gradients are returned
grad_return(grads, wrt) ==
    IF \E w \in wrt : grads[w] = "undefined"
    THEN [err |-> Raise("NullTypeGradError", "grad encountered an undefined gradient"),
          rval |-> <<>>]
    ELSE [err |-> NoErr, rval |-> [v \in 1..Len(grads) |-> IF v \in wrt THEN grads[v] ELSE "none"]]

InitGradient ==
    /\ pc = "start"
    /\ \E op \in GradOps : \E derived \in SUBSET FloatInputs(op) :
       \E wrt \in (SUBSET GraphInputs(op, derived)) \ {{}} :
            inp = [op |-> op, derived |-> derived, wrt |-> wrt]
    /\ loc = [terms |-> <<>>, grads |-> <<>>]
    /\ out = <<>>
    /\ err = NoErr

\* the traversal visits the node and calls its gradient rule
GradientVisit ==
    /\ pc = "start"
    /\ loc' = [loc EXCEPT !.terms = L_op(inp.op)]
    /\ pc' = "visited"
    /\ UNCHANGED <<inp, out, err>>

\* the traversal visits the nodes above and accumulates the contributions
GradientAccumulate ==
    /\ pc = "visited"
    /\ loc' = [loc EXCEPT !.grads = accumulate(inp.op, loc.terms)]
    /\ pc' = "accumulated"
    /\ UNCHANGED <<inp, out, err>>

\* the requested gradients are returned, or the call fails
GradientReturn ==
    /\ pc = "accumulated"
    /\ LET r == grad_return(loc.grads, inp.wrt)
       IN  /\ out' = r.rval
           /\ err' = r.err
           /\ pc' = IF r.err = NoErr THEN "returned" ELSE "failed"
    /\ UNCHANGED <<inp, loc>>

NextGradient == GradientVisit \/ GradientAccumulate \/ GradientReturn

SpecGradient == InitGradient /\ [][NextGradient]_vars

(***************************************************************************)
(* Properties of requested gradients.                                      *)
(***************************************************************************)
\* the inputs for which the rules decline: the index of GetItemList, the two
\* indices of GetItem2Lists, the mask of SamplingDot
DeclinedInputs(op) ==
    {k \in 1..Len(NodeInputs(op)) :
        \/ op = "GetItemList" /\ NodeInputs(op)[k] = "index"
        \/ op = "GetItem2Lists" /\ NodeInputs(op)[k] \in {"ind1", "ind2"}
        \/ op = "SamplingDot" /\ NodeInputs(op)[k] = "p"}

\* the node input whose gradient the requested variable w needs
InputNeededFor(w) ==
    IF w <= Len(NodeInputs(inp.op)) THEN w ELSE w - Len(NodeInputs(inp.op))

\* C20: the gradient of the cost with respect to the requested variables is
\* returned, a gradient for each, unless one of them needs the gradient of
\* an input the node's rule declines; exactly then the call raises.
C20_UndefinedFatalOnlyWhenRequested ==
    pc \in {"returned", "failed"} =>
        /\ pc = "failed" <=> \E w \in inp.wrt : InputNeededFor(w) \in DeclinedInputs(inp.op)
        /\ pc = "failed" <=> err # NoErr
        /\ pc = "returned" => \A w \in inp.wrt : out[w] = "gradient"

\* the gradients of sampling_dot with respect to x and y were returned
\* though the rule declines the mask
C20_Witness ==
    /\ pc = "returned"
    /\ inp.op = "SamplingDot"
    /\ inp.wrt = {1, 2}
    /\ loc.terms[3] = "undefined"
    /\ out[1] = "gradient"
    /\ out[2] = "gradient"

\* the gradient with respect to a variable the mask is computed from failed
C20_WitnessFailed ==
    /\ pc = "failed"
    /\ inp.op = "SamplingDot"
    /\ inp.wrt = {6}
    /\ err.type = "NullTypeGradError"

(***************************************************************************)
(* Gradient composition over a graph of AddSS nodes.  Variables 1 to       *)
(* GradLeaves are the graph inputs, variable GradLeaves + i is the output  *)
(* of node i, and the cost is the output of the last node.  A gradient is  *)
(* an integer standing for the matrix with that value at every position.   *)
(***************************************************************************)
GradLeaves == MaxSeed + 1

GradNodes == MaxDim + 1

\* the graphs of n nodes: node i adds two of the variables before it
RECURSIVE AddGraphs(_)
AddGraphs(n) ==
    IF n = 0 THEN {<<>>}
    ELSE {Append(g, <<a, b>>) :
            g \in AddGraphs(n - 1),
            a \in 1..(GradLeaves + n - 1), b \in 1..(GradLeaves + n - 1)}

\* the nodes that take variable v as an input
Consumers(nodes, v) == {n \in 1..Len(nodes) : nodes[n][1] = v \/ nodes[n][2] = v}

\* AddSS.grad giving the output gradient to its first input only
AddSS_grad_first(inputs, gout) == <<gout[1], 0>>

\* AddSS.grad: return gz, gz
AddSS_grad(inputs, gout) == <<gout[1], gout[1]>>

\* the accumulator once the terms of a node's rule are added to the slots
\* of its inputs, one input at a time
AddTerms(acc, inputs, terms) ==
    LET first == [acc EXCEPT ![inputs[1]] = @ + terms[1]]
    IN  [first EXCEPT ![inputs[2]] = @ + terms[2]]

InitCompose ==
    /\ pc = "start"
    /\ \E n \in 1..GradNodes : \E nodes \in AddGraphs(n) : \E g \in 1..(MaxSeed + 1) :
        /\ \A i \in 1..(n - 1) : Consumers(nodes, GradLeaves + i) # {}
        /\ inp = [nodes |-> nodes, g |-> g]
    /\ loc = [acc |-> <<>>, order |-> <<>>]
    /\ out = <<>>
    /\ err = NoErr

\* the slot of the cost holds its gradient, every other slot is empty
ComposeBegin ==
    /\ pc = "start"
    /\ loc' = [acc |-> [v \in 1..(GradLeaves + Len(inp.nodes)) |->
                            IF v = GradLeaves + Len(inp.nodes) THEN inp.g ELSE 0],
               order |-> <<>>]
    /\ pc' = "traverse"
    /\ UNCHANGED <<inp, out, err>>

\* a node not yet visited whose consumers have all been visited is visited:
\* its rule is called with the accumulated gradient of its output
ComposeVisit ==
    /\ pc = "traverse"
    /\ \E n \in 1..Len(inp.nodes) :
        /\ \A p \in 1..Len(loc.order) : loc.order[p] # n
        /\ \A c \in Consumers(inp.nodes, GradLeaves + n) :
                \E p \in 1..Len(loc.order) : loc.order[p] = c
        /\ loc' = [acc |-> AddTerms(loc.acc, inp.nodes[n],
                                    AddSS_grad(inp.nodes[n], <<loc.acc[GradLeaves + n]>>)),
                   order |-> Append(loc.order, n)]
    /\ UNCHANGED <<pc, inp, out, err>>

\* every node is visited: the slots of the graph inputs are returned
ComposeEnd ==
    /\ pc = "traverse"
    /\ Len(loc.order) = Len(inp.nodes)
    /\ out' = [v \in 1..GradLeaves |-> loc.acc[v]]
    /\ pc' = "composed"
    /\ UNCHANGED <<inp, loc, err>>

NextCompose == ComposeBegin \/ ComposeVisit \/ ComposeEnd

SpecCompose == InitCompose /\ [][NextCompose]_vars

(***************************************************************************)
(* Properties of gradient composition.                                     *)
(***************************************************************************)
\* the number of ways the cost is reached from variable v: one for the cost
\* itself, and for any other variable one for each use by a node, times the
\* ways from that node's output
RECURSIVE UsesFrom(_, _, _)
UsesFrom(nodes, v, n) ==
    IF n > Len(nodes) THEN (IF v = GradLeaves + Len(nodes) THEN 1 ELSE 0)
    ELSE UsesFrom(nodes, v, n + 1)
         + (IF nodes[n][1] = v THEN UsesFrom(nodes, GradLeaves + n, n + 1) ELSE 0)
         + (IF nodes[n][2] = v THEN UsesFrom(nodes, GradLeaves + n, n + 1) ELSE 0)

\* C21: every node is visited exactly once, a node only after all the nodes
\* that consume its output, and the gradient of a variable is the sum of the
\* terms returned for it by every use in a consuming node (twice the output
\* gradient for add(x, x)).
C21_ReverseOrderAndSum ==
    /\ pc \in {"traverse", "composed"} =>
        /\ \A p \in 1..Len(loc.order), q \in 1..Len(loc.order) :
                loc.order[p] = loc.order[q] => p = q
        /\ \A p \in 1..Len(loc.order) :
                \A c \in Consumers(inp.nodes, GradLeaves + loc.order[p]) :
                    \E q \in 1..(p - 1) : loc.order[q] = c
    /\ pc = "composed" =>
        /\ {loc.order[p] : p \in 1..Len(loc.order)} = 1..Len(inp.nodes)
        /\ \A v \in 1..(GradLeaves + Len(inp.nodes)) :
                loc.acc[v] = inp.g * UsesFrom(inp.nodes, v, 1)

\* a graph with add(x, x) feeding two later nodes was traversed: the input
\* collects more than twice the gradient of the cost
C21_Witness ==
    /\ pc = "composed"
    /\ Len(inp.nodes) = 3
    /\ inp.nodes[1] = <<1, 1>>
    /\ Cardinality(Consumers(inp.nodes, GradLeaves + 1)) = 2
    /\ out[1] > 2 * inp.g

(***************************************************************************)
(* Output dtypes of nodes that upcast the dtypes of their operands.        *)
(***************************************************************************)
closed_dtypes ==
    {"int8", "int16", "int32", "int64", "uint8", "uint16", "uint32", "uint64",
     "float16", "float32", "float64", "complex64", "complex128"}

\* AddSS.make_node: out_dtype = ps.upcast(x.type.dtype, y.type.dtype)
AddSS_make_node(x, y) == upcast(x, y)

\* MulSS.make_node: out_dtype = ps.upcast(x.type.dtype, y.type.dtype)
MulSS_make_node(x, y) == upcast(x, y)

\* ps.upcast(*dtypes): the dtypes are combined one after the other
RECURSIVE upcast_all(_, _)
upcast_all(dtypes, n) ==
    IF n = 1 THEN dtypes[1] ELSE upcast(upcast_all(dtypes, n - 1), dtypes[n])

\* hstack / vstack with dtype None: the dtype given to HStack / VStack
hstack_dtype(blocks) == upcast_all(blocks, Len(blocks))

InitUpcast ==
    /\ pc = "start"
    /\ inp \in [a : closed_dtypes, b : closed_dtypes, c : closed_dtypes]
    /\ loc = <<>>
    /\ out = <<>>
    /\ err = NoErr

\* add(a, b) is built
UpcastAdd ==
    /\ pc = "start"
    /\ out' = <<AddSS_make_node(inp.a, inp.b)>>
    /\ pc' = "added"
    /\ UNCHANGED <<inp, loc, err>>

\* mul(add(a, b), c) is built
UpcastMul ==
    /\ pc = "added"
    /\ out' = <<MulSS_make_node(out[1], inp.c)>>
    /\ pc' = "chained"
    /\ UNCHANGED <<inp, loc, err>>

\* hstack([a, b, c]) is built with dtype None
UpcastStack ==
    /\ pc = "start"
    /\ out' = <<hstack_dtype(<<inp.a, inp.b, inp.c>>)>>
    /\ pc' = "stacked"
    /\ UNCHANGED <<inp, loc, err>>

NextUpcast == UpcastAdd \/ UpcastMul \/ UpcastStack

SpecUpcast == InitUpcast /\ [][NextUpcast]_vars

(***************************************************************************)
(* Properties of upcasting.                                                *)
(***************************************************************************)
\* C22: upcast is symmetric, idempotent and associative over the closed set
\* of dtypes, so the dtype of add and mul nodes, of a chain of them and of
\* hstack with dtype None does not depend on the order of the operands.
C22_UpcastLaws ==
    /\ pc = "added" =>
        /\ out[1] = AddSS_make_node(inp.b, inp.a)
        /\ AddSS_make_node(inp.a, inp.a) = inp.a
    /\ pc = "chained" => out[1] = MulSS_make_node(inp.a, AddSS_make_node(inp.b, inp.c))
    /\ pc = "stacked" =>
        /\ out[1] = hstack_dtype(<<inp.b, inp.c, inp.a>>)
        /\ out[1] = hstack_dtype(<<inp.c, inp.b, inp.a>>)

\* float32 with int16 and then uint16 stays float32, while int16 with uint16
\* is int32, which with float32 is float64
C22_OrderChangesDtype ==
    /\ pc = "chained"
    /\ inp = [a |-> "float32", b |-> "int16", c |-> "uint16"]
    /\ out[1] = "float32"
    /\ MulSS_make_node(inp.a, AddSS_make_node(inp.b, inp.c)) = "float64"
    /\ hstack_dtype(<<inp.a, inp.b, inp.c>>) # hstack_dtype(<<inp.b, inp.c, inp.a>>)

\* what does hold: symmetry and idempotence, so a node of two operands has
\* one dtype in either order
C22_SymmetricIdempotent ==
    pc = "added" =>
        /\ out[1] = AddSS_make_node(inp.b, inp.a)
        /\ MulSS_make_node(inp.a, inp.b) = MulSS_make_node(inp.b, inp.a)
        /\ AddSS_make_node(inp.a, inp.a) = inp.a

(***************************************************************************)
(* pytensor.function: the choice of the compilation path.  A dict of       *)
(* outputs is the sequence of its items in insertion order; a key is its   *)
(* rank in the order of strings, with str FALSE for a key that is not a    *)
(* string.  name, mode and the other arguments handed on as they are are   *)
(* left out.                                                               *)
(***************************************************************************)
\* sorted(keys): insertion of a key before the first greater one
RECURSIVE InsertKey(_, _)
InsertKey(s, k) ==
    IF s = <<>> THEN <<k>>
    ELSE IF k <= s[1] THEN <<k>> \o s
    ELSE <<s[1]>> \o InsertKey(Tail(s), k)

RECURSIVE sorted(_)
sorted(s) == IF s = <<>> THEN <<>> ELSE InsertKey(sorted(Tail(s)), s[1])

\* outputs[key] of a dict
DictGet(items, key) == (CHOOSE i \in 1..Len(items) : items[i].key = key)

Truthy(v) == v \notin {"None", "False", "empty"}

NoCompile == [path |-> "none", inputs |-> <<>>, outputs |-> <<>>, output_keys |-> <<>>,
              updates |-> "None", givens |-> "None", profile |-> "None"]

\* function(...) handing a dict of outputs over in insertion order
function_unsorted(inputs, outputs, updates0, givens0, profile) ==
    IF outputs.kind = "dict" /\ \E i \in 1..Len(outputs.items) : ~outputs.items[i].str
    THEN [err |-> Raise("AssertionError", ""), fn |-> NoCompile]
    ELSE
    LET output_keys == IF outputs.kind = "dict"
                       THEN [i \in 1..Len(outputs.items) |-> outputs.items[i].key]
                       ELSE <<"None">>
        outs == IF outputs.kind = "dict"
                THEN [i \in 1..Len(outputs.items) |-> outputs.items[i].var]
                ELSE outputs.items
        updates == IF updates0 = "None" THEN "empty" ELSE updates0
        givens == IF givens0 = "None" THEN "empty" ELSE givens0
    IN  IF inputs.kind \notin {"list", "tuple"}
        THEN [err |-> Raise("Exception", "Input variables of an PyTensor function should be contained in a list, even when there is a single input."),
              fn |-> NoCompile]
        ELSE IF \E i \in 1..Len(inputs.items) : inputs.items[i] \in {"list", "tuple"}
        THEN IF Truthy(profile)
             THEN [err |-> Raise("NotImplementedError", "profiling not supported in old-style function"),
                   fn |-> NoCompile]
             ELSE IF Truthy(updates) \/ Truthy(givens)
             THEN [err |-> Raise("NotImplementedError", "In() instances and tuple inputs trigger the old semantics, which disallow using updates and givens"),
                   fn |-> NoCompile]
             ELSE [err |-> NoErr,
                   fn |-> [NoCompile EXCEPT !.path = "orig_function", !.inputs = inputs.items,
                                            !.outputs = outs]]
        ELSE [err |-> NoErr,
              fn |-> [path |-> "pfunc", inputs |-> inputs.items, outputs |-> outs,
                      output_keys |-> output_keys, updates |-> updates, givens |-> givens,
                      profile |-> profile]]

\* function(inputs, outputs, updates=, givens=, profile=)
function(inputs, outputs, updates0, givens0, profile) ==
    IF outputs.kind = "dict" /\ \E i \in 1..Len(outputs.items) : ~outputs.items[i].str
    THEN [err |-> Raise("AssertionError", ""), fn |-> NoCompile]
    ELSE
    LET output_keys == IF outputs.kind = "dict"
                       THEN sorted([i \in 1..Len(outputs.items) |-> outputs.items[i].key])
                       ELSE <<"None">>
        outs == IF outputs.kind = "dict"
                THEN [i \in 1..Len(output_keys) |->
                        outputs.items[DictGet(outputs.items, output_keys[i])].var]
                ELSE outputs.items
        updates == IF updates0 = "None" THEN "empty" ELSE updates0
        givens == IF givens0 = "None" THEN "empty" ELSE givens0
    IN  IF inputs.kind \notin {"list", "tuple"}
        THEN [err |-> Raise("Exception", "Input variables of an PyTensor function should be contained in a list, even when there is a single input."),
              fn |-> NoCompile]
        ELSE IF \E i \in 1..Len(inputs.items) : inputs.items[i] \in {"list", "tuple"}
        THEN IF Truthy(profile)
             THEN [err |-> Raise("NotImplementedError", "profiling not supported in old-style function"),
                   fn |-> NoCompile]
             ELSE IF Truthy(updates) \/ Truthy(givens)
             THEN [err |-> Raise("NotImplementedError", "In() instances and tuple inputs trigger the old semantics, which disallow using updates and givens"),
                   fn |-> NoCompile]
             ELSE [err |-> NoErr,
                   fn |-> [NoCompile EXCEPT !.path = "orig_function", !.inputs = inputs.items,
                                            !.outputs = outs]]
        ELSE [err |-> NoErr,
              fn |-> [path |-> "pfunc", inputs |-> inputs.items, outputs |-> outs,
                      output_keys |-> output_keys, updates |-> updates, givens |-> givens,
                      profile |-> profile]]

\* the outputs argument: a list of variables, or a dict of up to MaxDim items
\* with distinct keys, one of which may be no string
FunctionOutputs ==
    {[kind |-> "list", items |-> <<"y", "z">>]}
    \cup UNION {UNION {
            {[kind |-> "dict",
              items |-> [i \in 1..n |-> [key |-> keys[i], str |-> i # bad, var |-> keys[i] + 10]]] :
                bad \in 0..n} :
            keys \in {f \in [1..n -> 1..(MaxDim + 1)] : \A i, j \in 1..n : f[i] = f[j] => i = j}} :
         n \in 0..MaxDim}

\* the inputs argument: a list or a tuple of variables, In instances or
\* old-style lists and tuples, or something that is neither
FunctionInputs ==
    {[kind |-> "Variable", items |-> <<>>]}
    \cup {[kind |-> k, items |-> items] :
            k \in {"list", "tuple"},
            items \in {<<>>, <<"Variable">>, <<"Variable", "In">>, <<"Variable", "list">>,
                       <<"tuple">>}}

InitFunction ==
    /\ pc = "start"
    /\ \E i \in FunctionInputs, o \in FunctionOutputs :
       \E u \in {"None", "empty", "nonempty"}, g \in {"None", "empty", "nonempty"} :
       \E p \in {"None", "False", "True", "ProfileStats"} :
            inp = [inputs |-> i, outputs |-> o, updates |-> u, givens |-> g, profile |-> p]
    /\ loc = <<>>
    /\ out = <<>>
    /\ err = NoErr

\* the call pytensor.function(...)
FunctionCall ==
    /\ pc = "start"
    /\ LET r == function(inp.inputs, inp.outputs, inp.updates, inp.givens, inp.profile)
       IN  /\ out' = IF r.err = NoErr THEN <<r.fn>> ELSE <<>>
           /\ err' = r.err
           /\ pc' = IF r.err = NoErr THEN "compiled" ELSE "raised"
    /\ UNCHANGED <<inp, loc>>

NextFunction == FunctionCall

SpecFunction == InitFunction /\ [][NextFunction]_vars

(***************************************************************************)
(* Properties of pytensor.function.                                        *)
(***************************************************************************)
InputsAreSequence == inp.inputs.kind \in {"list", "tuple"}

UsesTuple == \E i \in 1..Len(inp.inputs.items) : inp.inputs.items[i] \in {"list", "tuple"}

OldStyleRefused ==
    \/ inp.profile \in {"True", "ProfileStats"}
    \/ inp.updates = "nonempty"
    \/ inp.givens = "nonempty"

HasNonStringKey ==
    inp.outputs.kind = "dict" /\ \E i \in 1..Len(inp.outputs.items) : ~inp.outputs.items[i].str

\* the outputs were handed over as the claim says: a dict as the list of its
\* values in ascending order of key, with those keys
OutputsHandedOver(withKeys) ==
    IF inp.outputs.kind = "dict"
    THEN /\ Len(out[1].outputs) = Len(inp.outputs.items)
         /\ \A i \in 1..Len(inp.outputs.items) :
                \E k \in 1..Len(out[1].outputs) :
                    /\ out[1].outputs[k] = inp.outputs.items[i].var
                    /\ withKeys => out[1].output_keys[k] = inp.outputs.items[i].key
                    /\ Cardinality({j \in 1..Len(inp.outputs.items) :
                            inp.outputs.items[j].key < inp.outputs.items[i].key}) = k - 1
    ELSE out[1].outputs = inp.outputs.items /\ (withKeys => out[1].output_keys = <<"None">>)

\* the path the claim gives for every call
PathAsClaimed ==
    /\ ~InputsAreSequence => pc = "raised"
    /\ (InputsAreSequence /\ UsesTuple /\ OldStyleRefused)
            => (pc = "raised" /\ err.type = "NotImplementedError")
    /\ (InputsAreSequence /\ UsesTuple /\ ~OldStyleRefused)
            => (pc = "compiled" /\ out[1].path = "orig_function")
    /\ (InputsAreSequence /\ ~UsesTuple)
            => (pc = "compiled" /\ out[1].path = "pfunc" /\ OutputsHandedOver(TRUE))

\* C23 as stated: the path depends on inputs, profile, updates and givens
\* alone, and every call with a flat list of inputs compiles through pfunc.
C23_PathFromArguments == (pc # "start") => PathAsClaimed

\* C23: a dict of outputs with a key that is no string fails an assertion
\* before anything else; every other call takes the path the claim gives:
\* an exception when inputs is no list or tuple, NotImplementedError or
\* orig_function for old-style inputs, and otherwise pfunc, with a dict of
\* outputs as the list of its values in sorted order of key and those keys.
C23_PathFromArgumentsAndKeys ==
    (pc # "start") =>
        /\ HasNonStringKey => (pc = "raised" /\ err.type = "AssertionError")
        /\ ~HasNonStringKey =>
            /\ PathAsClaimed
            /\ (~InputsAreSequence) => err.type = "Exception"
            /\ (pc = "compiled" /\ out[1].path = "orig_function") => OutputsHandedOver(FALSE)
            /\ (pc = "compiled" /\ out[1].path = "pfunc") =>
                    (out[1].updates # "None" /\ out[1].givens # "None")

\* a dict given out of key order went to pfunc in sorted order
C23_Witness ==
    /\ pc = "compiled"
    /\ out[1].path = "pfunc"
    /\ inp.outputs.kind = "dict"
    /\ Len(inp.outputs.items) = 2
    /\ inp.outputs.items[1].key > inp.outputs.items[2].key
    /\ out[1].output_keys[1] = inp.outputs.items[2].key
    /\ out[1].outputs[1] = inp.outputs.items[2].var

\* a flat list of inputs with a dict of outputs that has a key that is no
\* string: the call raised instead of compiling through pfunc
C23_WitnessAssertion ==
    /\ pc = "raised"
    /\ err.type = "AssertionError"
    /\ inp.inputs.kind = "list"
    /\ ~UsesTuple

(***************************************************************************)
(* StructuredDotGradCSC and StructuredDotGradCSR: the dtype declared by    *)
(* make_node and the dtype of the vector perform produces.                 *)
(***************************************************************************)

\* StructuredDotGradCSC.make_node: tensor(dtype=g_ab.dtype, shape=(None,))
StructuredDotGradCSC_make_node(b_dtype, g_ab_dtype) == g_ab_dtype

\* StructuredDotGradCSR.make_node: tensor(dtype=b.dtype, shape=(None,))
StructuredDotGradCSR_make_node(b_dtype, g_ab_dtype) == b_dtype

\* both perform methods: g_a_data = np.zeros(a_indices.shape, dtype=g_ab.dtype),
\* filled entry by entry and returned
StructuredDotGrad_perform_dtype(b_dtype, g_ab_dtype) == g_ab_dtype

\* a sparse pattern a, a dense b with a's number of columns as its number of
\* rows, an output gradient g_ab with a's number of rows, and their dtypes
InitSDGrad ==
    /\ pc = "start"
    /\ \E m \in CanonicalMatrices, s \in 0..MaxSeed :
       \E bt \in closed_dtypes, gt \in closed_dtypes :
            inp = [a |-> m,
                   b |-> DenseMat(m.shape[2], 1, s), b_dtype |-> bt,
                   g_ab |-> DenseMat(m.shape[1], 1, s), g_ab_dtype |-> gt]
    /\ loc = [declared |-> "None"]
    /\ out = <<>>
    /\ err = NoErr

\* graph construction: sdg_csc / sdg_csr applied to csm_indices(a),
\* csm_indptr(a), b and g_ab
SDGradMakeNode ==
    /\ pc = "start"
    /\ loc' = [declared |-> IF inp.a.format = "csc"
                            THEN StructuredDotGradCSC_make_node(inp.b_dtype, inp.g_ab_dtype)
                            ELSE StructuredDotGradCSR_make_node(inp.b_dtype, inp.g_ab_dtype)]
    /\ pc' = "node"
    /\ UNCHANGED <<inp, out, err>>

\* evaluation of the node
SDGradPerform ==
    /\ pc = "node"
    /\ out' = <<[dtype |-> StructuredDotGrad_perform_dtype(inp.b_dtype, inp.g_ab_dtype),
                 data |-> IF inp.a.format = "csc"
                          THEN StructuredDotGradCSC_perform(inp.a.indices, inp.a.indptr,
                                                            inp.b, inp.g_ab)
                          ELSE StructuredDotGradCSR_perform(inp.a.indices, inp.a.indptr,
                                                            inp.b, inp.g_ab)]>>
    /\ pc' = "performed"
    /\ UNCHANGED <<inp, loc, err>>

NextSDGrad == SDGradMakeNode \/ SDGradPerform

SpecSDGrad == InitSDGrad /\ [][NextSDGrad]_vars

\* C26 as stated: for StructuredDotGradCSC and StructuredDotGradCSR, the
\* dtype of the vector produced by evaluation equals the dtype declared at
\* node construction, for every pair of dtypes of b and g_ab.
C26_DtypeAsDeclared == (pc = "performed") => out[1].dtype = loc.declared

\* C26, the part that holds: StructuredDotGradCSC produces the dtype it
\* declared, and so does StructuredDotGradCSR when b and g_ab have one dtype;
\* the vector has one entry per stored position of a.
C26_DtypeAsDeclaredCSC ==
    (pc = "performed" /\ (inp.a.format = "csc" \/ inp.b_dtype = inp.g_ab_dtype)) =>
        /\ out[1].dtype = loc.declared
        /\ Len(out[1].data) = Len(inp.a.indices)

\* StructuredDotGradCSR on a float32 b and a float64 g_ab declared float32
\* and produced a float64 vector
C26_WitnessCSR ==
    /\ pc = "performed"
    /\ inp.a.format = "csr"
    /\ Len(inp.a.indices) > 0
    /\ inp.b_dtype = "float32"
    /\ inp.g_ab_dtype = "float64"
    /\ loc.declared = "float32"
    /\ out[1].dtype = "float64"

(***************************************************************************)
(* Storage aliasing: the view map and the destroy map of an operator, and  *)
(* the arrays its perform returns and writes.  An array is named by the    *)
(* object that holds it; the arrays of the inputs are those of x and, for  *)
(* the scaling operators, the vector s; an array allocated by perform is   *)
(* one of NewArrays.  A perform result gives the arrays of the value left  *)
(* in the output cell (none for None) and the arrays written.              *)
(***************************************************************************)
ArraysOf(name) == {<<name, "data">>, <<name, "indices">>, <<name, "indptr">>}

NewArrays == ArraysOf("new") \cup {<<"new", "ndarray">>}

\* the arrays of input i (0: x, a sparse matrix or a dense array; 1: s)
InputArrays(i, x_is_dense) ==
    IF i = 0 THEN (IF x_is_dense THEN {<<"x", "ndarray">>} ELSE ArraysOf("x"))
    ELSE {<<"s", "ndarray">>}

\* scipy's has_sorted_indices: no minor index is above its successor in a slice
has_sorted_indices(x) ==
    \A k \in 1..(Len(x.indices) - 1) :
        SliceOfPos(x.indptr, k) = SliceOfPos(x.indptr, k + 1) => x.indices[k] <= x.indices[k + 1]

AliasingOps == {"EnsureSortedIndices", "Remove0", "DenseFromSparse", "RowScaleCSC", "ColScaleCSC"}

\* the view map of an operator, as pairs <<output, input>>: the class
\* attribute of RowScaleCSC, and what EnsureSortedIndices.__init__ sets
view_map(op, inplace) ==
    IF op = "RowScaleCSC" THEN {<<0, 0>>}
    ELSE IF op = "EnsureSortedIndices" /\ inplace THEN {<<0, 0>>}
    ELSE {}

\* the destroy map of an operator: what Remove0.__init__ sets
destroy_map(op, inplace) ==
    IF op = "Remove0" /\ inplace THEN {<<0, 0>>} ELSE {}

\* EnsureSortedIndices.perform: x.sort_indices() sorts the arrays of x where
\* they stand, when they are not sorted yet, and returns None;
\* x.sorted_indices() sorts a copy and returns it
EnsureSortedIndices_perform(inplace, x) ==
    IF inplace
    THEN [value |-> {},
          written |-> IF has_sorted_indices(x) THEN {}
                      ELSE {<<"x", "data">>, <<"x", "indices">>}]
    ELSE [value |-> ArraysOf("new"), written |-> {}]

\* Remove0.perform: c is x or x.copy(); c.eliminate_zeros() compacts the
\* arrays of c where they stand; c is the output
Remove0_perform(inplace, x) ==
    IF inplace
    THEN [value |-> ArraysOf("x"), written |-> {<<"x", "data">>, <<"x", "indices">>, <<"x", "indptr">>}]
    ELSE [value |-> ArraysOf("new"), written |-> {}]

\* DenseFromSparse.perform: a dense x is the output itself, a sparse x is
\* converted by toarray()
DenseFromSparse_perform(x_is_dense) ==
    IF x_is_dense
    THEN [value |-> {<<"x", "ndarray">>}, written |-> {}]
    ELSE [value |-> {<<"new", "ndarray">>}, written |-> {}]

\* RowScaleCSC.perform: the output is built on a scaled copy of x.data and
\* on x.indices and x.indptr themselves
RowScaleCSC_perform_arrays(x, s) ==
    [value |-> {<<"new", "data">>, <<"x", "indices">>, <<"x", "indptr">>}, written |-> {}]

\* ColScaleCSC.perform: y = x.copy() is scaled and is the output
ColScaleCSC_perform_arrays(x, s) ==
    [value |-> ArraysOf("new"), written |-> {}]

InitAlias ==
    /\ pc = "start"
    /\ \E op \in AliasingOps, inplace \in BOOLEAN, x_is_dense \in BOOLEAN, m \in SmallMatrices :
        /\ inplace => op \in {"EnsureSortedIndices", "Remove0"}
        /\ x_is_dense => op = "DenseFromSparse"
        /\ op \in {"RowScaleCSC", "ColScaleCSC"} => m.format = "csc"
        /\ inp = [op |-> op, inplace |-> inplace, x_is_dense |-> x_is_dense, x |-> m,
                  s |-> DataVec(IF op = "RowScaleCSC" THEN m.shape[1] ELSE m.shape[2], 1)]
    /\ loc = [view_map |-> {}, destroy_map |-> {}]
    /\ out = <<>>
    /\ err = NoErr

\* construction of the operator: its maps
AliasConstruct ==
    /\ pc = "start"
    /\ loc' = [view_map |-> view_map(inp.op, inp.inplace),
               destroy_map |-> destroy_map(inp.op, inp.inplace)]
    /\ pc' = "constructed"
    /\ UNCHANGED <<inp, out, err>>

\* evaluation of the operator on its inputs
AliasPerform ==
    /\ pc = "constructed"
    /\ out' = <<CASE inp.op = "EnsureSortedIndices" -> EnsureSortedIndices_perform(inp.inplace, inp.x)
                  [] inp.op = "Remove0" -> Remove0_perform(inp.inplace, inp.x)
                  [] inp.op = "DenseFromSparse" -> DenseFromSparse_perform(inp.x_is_dense)
                  [] inp.op = "RowScaleCSC" -> RowScaleCSC_perform_arrays(inp.x, inp.s)
                  [] inp.op = "ColScaleCSC" -> ColScaleCSC_perform_arrays(inp.x, inp.s)>>
    /\ pc' = "performed"
    /\ UNCHANGED <<inp, loc, err>>

NextAlias == AliasConstruct \/ AliasPerform

SpecAlias == InitAlias /\ [][NextAlias]_vars

\* output 0 holds an array of input i
SharesWithInput(i) == out[1].value \cap InputArrays(i, inp.x_is_dense) # {}

\* an array of input i was written
ModifiesInput(i) == out[1].written \cap InputArrays(i, inp.x_is_dense) # {}

\* the maps cover what evaluation did
DeclaredHonestly ==
    /\ \A i \in 0..1 : SharesWithInput(i) => <<0, i>> \in loc.view_map \cup loc.destroy_map
    /\ \A i \in 0..1 : ModifiesInput(i) => <<0, i>> \in loc.destroy_map
    /\ (loc.view_map = {} /\ loc.destroy_map = {}) =>
            (out[1].written = {} /\ out[1].value \subseteq NewArrays)

\* C27 as stated: an output that shares storage with an input is declared in
\* the view map (or, for an operator working in place, the destroy map), an
\* input modified in place is declared in the destroy map, and an operator
\* with neither map modifies no input and returns newly allocated storage.
C27_AliasingDeclared == (pc = "performed") => DeclaredHonestly

\* C27, the part that holds: the maps cover what evaluation did for Remove0,
\* RowScaleCSC, ColScaleCSC, EnsureSortedIndices without inplace and
\* DenseFromSparse on a sparse value.
C27_AliasingDeclaredElsewhere ==
    (/\ pc = "performed"
     /\ ~(inp.op = "EnsureSortedIndices" /\ inp.inplace)
     /\ ~(inp.op = "DenseFromSparse" /\ inp.x_is_dense)) => DeclaredHonestly

\* EnsureSortedIndices(inplace=True) sorted the arrays of an unsorted x where
\* they stand, with an empty destroy map
C27_WitnessSortInplace ==
    /\ pc = "performed"
    /\ inp.op = "EnsureSortedIndices"
    /\ inp.inplace
    /\ ~has_sorted_indices(inp.x)
    /\ ModifiesInput(0)
    /\ loc.destroy_map = {}
    /\ loc.view_map = {<<0, 0>>}

(***************************************************************************)
(* Comparisons: eq, neq, lt, gt, le, ge between a sparse matrix and a      *)
(* sparse or dense one.                                                    *)
(***************************************************************************)
ComparisonNames == {"eq", "neq", "lt", "gt", "le", "ge"}

\* the comparison method of the classes EqualSS / EqualSD, NotEqualSS / ...,
\* on one pair of entries
comparison(cls, a, b) ==
    CASE cls = "Equal" -> a = b
      [] cls = "NotEqual" -> a # b
      [] cls = "LessThan" -> a < b
      [] cls = "GreaterThan" -> a > b
      [] cls = "LessEqual" -> a <= b
      [] cls = "GreaterEqual" -> a >= b

\* .astype("uint8") of a matrix of booleans
AsUint8(rows, cols, holds(_, _)) ==
    [i \in 1..rows |-> [j \in 1..cols |-> IF holds(i, j) THEN 1 ELSE 0]]

\* __ComparisonOpSS: make_node refuses two formats, perform asserts equal
\* shapes and returns the comparison as a sparse uint8 matrix
ComparisonOpSS(cls, x, y) ==
    IF x.format # y.format
    THEN [err |-> Raise("NotImplementedError", ""), kind |-> "None", dtype |-> "None", val |-> <<>>]
    ELSE IF x.shape # y.shape
    THEN [err |-> Raise("AssertionError", ""), kind |-> "None", dtype |-> "None", val |-> <<>>]
    ELSE LET xd == toarray(x)
             yd == toarray(y)
             holds(i, j) == comparison(cls, xd[i][j], yd[i][j])
         IN  [err |-> NoErr, kind |-> "sparse", dtype |-> "uint8",
              val |-> <<SparseFromDense_perform(x.format,
                            AsUint8(x.shape[1], x.shape[2], holds), x.shape)>>]

\* __ComparisonOpSD: make_node asserts a 2-d y, perform asserts equal shapes
\* and returns np.asarray(self.comparison(x, y).astype("uint8"))
ComparisonOpSD(cls, x, y) ==
    IF y.ndim # 2
    THEN [err |-> Raise("AssertionError", ""), kind |-> "None", dtype |-> "None", val |-> <<>>]
    ELSE IF x.shape # DenseShape(y.dn)
    THEN [err |-> Raise("AssertionError", ""), kind |-> "None", dtype |-> "None", val |-> <<>>]
    ELSE LET xd == toarray(x)
             holds(i, j) == comparison(cls, xd[i][j], y.dn[i][j])
         IN  [err |-> NoErr, kind |-> "dense", dtype |-> "uint8",
              val |-> <<AsUint8(x.shape[1], x.shape[2], holds)>>]

\* the table of switches with the dense-first class the same as the
\* sparse-first one
ComparisonSwitchTable_unmirrored(name) ==
    CASE name = "eq" -> [SS |-> "Equal", SD |-> "Equal", DS |-> "Equal"]
      [] name = "neq" -> [SS |-> "NotEqual", SD |-> "NotEqual", DS |-> "NotEqual"]
      [] name = "lt" -> [SS |-> "LessThan", SD |-> "LessThan", DS |-> "LessThan"]
      [] name = "gt" -> [SS |-> "GreaterThan", SD |-> "GreaterThan", DS |-> "GreaterThan"]
      [] name = "le" -> [SS |-> "LessEqual", SD |-> "LessEqual", DS |-> "LessEqual"]
      [] name = "ge" -> [SS |-> "GreaterEqual", SD |-> "GreaterEqual", DS |-> "GreaterEqual"]

\* eq = __ComparisonSwitch(equal_s_s, equal_s_d, equal_s_d), ... : the classes
\* of the three operators each switch is built on
ComparisonSwitchTable(name) ==
    CASE name = "eq" -> [SS |-> "Equal", SD |-> "Equal", DS |-> "Equal"]
      [] name = "neq" -> [SS |-> "NotEqual", SD |-> "NotEqual", DS |-> "NotEqual"]
      [] name = "lt" -> [SS |-> "LessThan", SD |-> "LessThan", DS |-> "GreaterThan"]
      [] name = "gt" -> [SS |-> "GreaterThan", SD |-> "GreaterThan", DS |-> "LessThan"]
      [] name = "le" -> [SS |-> "LessEqual", SD |-> "LessEqual", DS |-> "GreaterEqual"]
      [] name = "ge" -> [SS |-> "GreaterEqual", SD |-> "GreaterEqual", DS |-> "LessEqual"]

\* the helper of __ComparisonSwitch, with the node it builds evaluated
ComparisonSwitch(name, x0, y0) ==
    LET x == as_sparse_variable(x0)
        y == as_sparse_variable(y0)
        t == ComparisonSwitchTable(name)
    IN  IF ~(is_sparse_variable(x) \/ is_sparse_variable(y))
        THEN [err |-> Raise("AssertionError", ""), kind |-> "None", dtype |-> "None", val |-> <<>>]
        ELSE IF is_sparse_variable(x) /\ is_sparse_variable(y)
        THEN ComparisonOpSS(t.SS, x.sp, y.sp)
        ELSE IF is_sparse_variable(x)
        THEN ComparisonOpSD(t.SD, x.sp, y)
        ELSE ComparisonOpSD(t.DS, y.sp, x)

\* the dense operands of the comparisons: the matrices of every small shape
\* and seed, and a vector
ComparedDense ==
    {DenseOperand(2, DenseMat(sh[1], sh[2], s)) : sh \in SmallShapes, s \in 0..MaxSeed}
    \cup {DenseOperand(1, DenseMat(1, MaxDim, 0)[1])}

InitCompare ==
    /\ pc = "start"
    /\ \E name \in ComparisonNames :
        \/ \E m \in CanonicalMatrices, k \in SparseKinds, d \in ComparedDense :
            \/ inp = [name |-> name, x |-> d, y |-> SparseOperand(k, m)]
            \/ inp = [name |-> name, x |-> SparseOperand(k, m), y |-> d]
        \/ \E m \in CanonicalMatrices, n \in CanonicalMatrices, k \in SparseKinds :
            /\ n.shape[1] = m.shape[1]
            /\ inp = [name |-> name, x |-> SparseOperand(k, m),
                      y |-> SparseOperand("SparseVariable", n)]
        \/ \E d \in ComparedDense, e \in ComparedDense :
            /\ e.ndim = 2
            /\ inp = [name |-> name, x |-> d, y |-> e]
    /\ loc = <<>>
    /\ out = <<>>
    /\ err = NoErr

\* eq(x, y), ..., ge(x, y), built and evaluated
Compare ==
    /\ pc = "start"
    /\ LET r == ComparisonSwitch(inp.name, inp.x, inp.y)
       IN  /\ out' = IF r.err = NoErr THEN <<[kind |-> r.kind, dtype |-> r.dtype, val |-> r.val[1]]>>
                     ELSE <<>>
           /\ err' = r.err
           /\ pc' = IF r.err = NoErr THEN "compared values" ELSE "comparison refused"
    /\ UNCHANGED <<inp, loc>>

NextCompare == Compare

SpecCompare == InitCompare /\ [][NextCompare]_vars

\* the value of an operand at (i, j)
OperandAt(v, i, j) == IF v.kind = "TensorVariable" THEN v.dn[i][j] ELSE toarray(v.sp)[i][j]

\* one sparse and one dense matrix of the same shape
SparseAndDense ==
    /\ (inp.x.kind = "TensorVariable") # (inp.y.kind = "TensorVariable")
    /\ inp.x.ndim = 2 /\ inp.y.ndim = 2
    /\ ValueShape(as_sparse_variable(inp.x)) = ValueShape(as_sparse_variable(inp.y))

\* C28: for one sparse and one dense matrix of the same shape, in either
\* order, lt, gt, le, ge, eq and neq return a dense uint8 matrix of that
\* shape whose entry (i, j) is 1 exactly when x[i,j] <, >, <=, >=, ==, !=
\* y[i,j], and 0 otherwise.
C28_ComparisonElementwise ==
    (pc # "start" /\ SparseAndDense) =>
        /\ pc = "compared values"
        /\ out[1].kind = "dense"
        /\ out[1].dtype = "uint8"
        /\ DenseShape(out[1].val) = ValueShape(as_sparse_variable(inp.y))
        /\ \A i \in 1..Len(out[1].val) : \A j \in 1..Len(out[1].val[1]) :
            LET a == OperandAt(inp.x, i, j)
                b == OperandAt(inp.y, i, j)
            IN  /\ out[1].val[i][j] \in {0, 1}
                /\ (out[1].val[i][j] = 1) <=>
                     \/ inp.name = "lt" /\ a < b
                     \/ inp.name = "gt" /\ a > b
                     \/ inp.name = "le" /\ a <= b
                     \/ inp.name = "ge" /\ a >= b
                     \/ inp.name = "eq" /\ a = b
                     \/ inp.name = "neq" /\ a # b

\* lt of a dense x and a sparse y with x below y at one entry and above it at
\* another
C28_Witness ==
    /\ pc = "compared values"
    /\ inp.name = "lt"
    /\ inp.x.kind = "TensorVariable"
    /\ inp.y.kind # "TensorVariable"
    /\ \E i \in 1..Len(out[1].val) : \E j, k \in 1..Len(out[1].val[1]) :
        /\ OperandAt(inp.x, i, j) < OperandAt(inp.y, i, j)
        /\ out[1].val[i][j] = 1
        /\ OperandAt(inp.x, i, k) > OperandAt(inp.y, i, k)
        /\ out[1].val[i][k] = 0

(***************************************************************************)
(* SparseConstantSignature as an equivalence: a signature compared with    *)
(* itself, a pair compared both ways, and the hashes of a pair.            *)
(***************************************************************************)
\* a ^ b of two non-negative integers
RECURSIVE Xor(_, _)
Xor(a, b) ==
    IF a = 0 THEN b
    ELSE IF b = 0 THEN a
    ELSE ((a + b) % 2) + 2 * Xor(a \div 2, b \div 2)

\* hash of a class object (the signature class, csr_matrix, csc_matrix):
\* one fixed integer for each
HashOfClass(c) ==
    CASE c = "SparseConstantSignature" -> 1
      [] c = "csr" -> 2
      [] c = "csc" -> 4

\* hash of a sparse type: one fixed integer for each format and dtype
HashOfType(a) ==
    (IF a.format = "csr" THEN 8 ELSE 16) + (IF a.dtype = "float32" THEN 32 ELSE 64)

\* SparseConstantSignature.__hash__:
\* hash(type(self)) ^ hash(a) ^ hash(type(b))
SparseConstantSignature_hash(self) ==
    Xor(Xor(HashOfClass("SparseConstantSignature"), HashOfType(self.a)),
        HashOfClass(TypeOf(self.b)))

\* self == self
SignatureSelf ==
    /\ pc = "start"
    /\ out' = <<SparseConstantSignature_eq(inp.self, inp.self)>>
    /\ pc' = "self"
    /\ UNCHANGED <<inp, loc, err>>

\* self == other and other == self
SignatureBothWays ==
    /\ pc = "start"
    /\ out' = <<SparseConstantSignature_eq(inp.self, inp.other),
                SparseConstantSignature_eq(inp.other, inp.self)>>
    /\ pc' = "both"
    /\ UNCHANGED <<inp, loc, err>>

\* self == other, hash(self) and hash(other)
SignatureHash ==
    /\ pc = "start"
    /\ out' = <<SparseConstantSignature_eq(inp.self, inp.other),
                SparseConstantSignature_hash(inp.self),
                SparseConstantSignature_hash(inp.other)>>
    /\ pc' = "hashed"
    /\ UNCHANGED <<inp, loc, err>>

NextSigLaws == SignatureSelf \/ SignatureBothWays \/ SignatureHash

SpecSigLaws == InitSig /\ [][NextSigLaws]_vars

\* C29 as stated: every signature equals itself, a == b exactly when b == a,
\* and a == b implies hash(a) == hash(b).
C29_Equivalence ==
    /\ (pc = "self") => out[1]
    /\ (pc = "both") => (out[1] <=> out[2])
    /\ (pc = "hashed" /\ out[1]) => out[2] = out[3]

\* C29, the part that holds: a signature whose matrix stores an entry equals
\* itself, two signatures whose matrices store the same number of entries
\* are equal one way exactly when they are the other way, and equal
\* signatures have equal hashes.
C29_EquivalenceOnEqualNnz ==
    /\ (pc = "self" /\ Nnz(inp.self.b.m) > 0) => out[1]
    /\ (pc = "both" /\ Nnz(inp.self.b.m) = Nnz(inp.other.b.m)) => (out[1] <=> out[2])
    /\ (pc = "hashed" /\ out[1]) => out[2] = out[3]

\* a signature whose matrix stores no entry, compared with itself: unequal
C29_WitnessEmpty ==
    /\ pc = "self"
    /\ Nnz(inp.self.b.m) = 0
    /\ ~out[1]

\* two signatures whose matrices store different numbers of entries: unequal
\* one way and equal the other way
C29_WitnessOneWay ==
    /\ pc = "both"
    /\ Nnz(inp.self.b.m) < Nnz(inp.other.b.m)
    /\ ~out[1]
    /\ out[2]

\* two equal signatures with different matrices and one hash
C29_WitnessHash ==
    /\ pc = "hashed"
    /\ out[1]
    /\ inp.self.b.m # inp.other.b.m
    /\ out[2] = out[3]

(***************************************************************************)
(* Shape inference: infer_shape of SpSum, HStack, VStack, GetItemList and  *)
(* CSMGrad from the shapes of the inputs, and the shape of the value that  *)
(* perform produces.  A shape is a tuple of sizes.                         *)
(***************************************************************************)

\* SpSum.infer_shape
SpSum_infer_shape(op, shapes) ==
    IF op.axis = "None" THEN <<<<>>>>
    ELSE IF op.axis = "0" THEN <<<<shapes[1][2]>>>>
    ELSE <<<<shapes[1][1]>>>>

\* HStack.infer_shape and VStack.infer_shape
HStack_infer_shape(op, ins_shapes) ==
    LET d == SeqSum([k \in 1..Len(ins_shapes) |-> ins_shapes[k][StackAxis(op) + 1]])
    IN  IF op.class = "HStack" THEN <<<<ins_shapes[1][1], d>>>>
        ELSE <<<<d, ins_shapes[1][2]>>>>

\* GetItemList.infer_shape
GetItemList_infer_shape(shapes) == <<<<shapes[2][1], shapes[1][2]>>>>

\* CSMGrad.infer_shape: [shapes[1]], the shape of x_indices
CSMGrad_infer_shape(shapes) == <<shapes[2]>>

\* GetItemList.perform: x[indices], the rows of x picked by the indices;
\* scipy raises IndexError for an index outside [-rows, rows)
GetItemList_perform(x, indices) ==
    IF \E a \in 1..Len(indices) : indices[a] < -x.shape[1] \/ indices[a] >= x.shape[1]
    THEN [err |-> Raise("IndexError", "index out of range"), val |-> <<>>]
    ELSE [err |-> NoErr,
          val |-> <<[format |-> x.format, shape |-> <<Len(indices), x.shape[2]>>,
                     rows |-> [a \in 1..Len(indices) |->
                                toarray(x)[NormalizeRow(indices[a], x.shape[1]) + 1]]]>>]

\* every index the loops of CSMGrad.perform use is inside its array
CSMGrad_in_range(a) ==
    LET sp_dim == CSMGrad_sp_dim(a.x_indptr, a.x_shape)
    IN  /\ Len(a.g_indptr) >= Len(a.x_indptr)
        /\ \A i \in 0..(Len(a.x_indptr) - 2) :
            /\ \A j_ptr \in At(a.g_indptr, i)..(At(a.g_indptr, i + 1) - 1) :
                /\ j_ptr < Len(a.g_indices) /\ j_ptr < Len(a.g_data)
                /\ At(a.g_indices, j_ptr) < sp_dim
            /\ \A j_ptr \in At(a.x_indptr, i)..(At(a.x_indptr, i + 1) - 1) :
                /\ j_ptr < Len(a.x_indices) /\ j_ptr < Len(a.x_data)
                /\ At(a.x_indices, j_ptr) < sp_dim

\* the outer loop of CSMGrad.perform from slice i on
RECURSIVE CSMGrad_loop(_, _, _, _)
CSMGrad_loop(a, i, g_row, gout_data) ==
    IF i >= Len(a.x_indptr) - 1 THEN gout_data
    ELSE LET scattered == CSMGrad_scatter(g_row, a.g_indices, a.g_data,
                                          At(a.g_indptr, i), At(a.g_indptr, i + 1))
         IN  CSMGrad_loop(a, i + 1,
                          CSMGrad_clear(scattered, a.g_indices,
                                        At(a.g_indptr, i), At(a.g_indptr, i + 1)),
                          CSMGrad_gather(gout_data, scattered, a.x_indices,
                                         At(a.x_indptr, i), At(a.x_indptr, i + 1)))

\* CSMGrad.perform: gout_data = np.zeros(x_data.shape), filled by the loops;
\* an index outside its array raises IndexError
CSMGrad_perform(a) ==
    IF ~CSMGrad_in_range(a)
    THEN [err |-> Raise("IndexError", "index out of bounds"), val |-> <<>>]
    ELSE [err |-> NoErr,
          val |-> <<CSMGrad_loop(a, 0, zeros(CSMGrad_sp_dim(a.x_indptr, a.x_shape)),
                                 zeros(Len(a.x_data)))>>]

\* the inputs of a CSMGrad node with the vector x_data as it is, one element
\* longer, or one element shorter
WithDataLength(a, v) ==
    IF v = "longer" THEN [a EXCEPT !.x_data = Append(@, 0)]
    ELSE IF v = "shorter" /\ Len(a.x_data) > 0
    THEN [a EXCEPT !.x_data = SubSeq(@, 1, Len(@) - 1)]
    ELSE a

InitShape ==
    /\ pc = "start"
    /\ \/ \E axis \in {"None", "0", "1"}, x \in SmallMatrices :
            inp = [class |-> "SpSum", op |-> SpSum_init(axis, "unset"), x |-> x]
       \/ \E class \in {"HStack", "VStack"}, format \in {"None", "csr", "csc"} :
          \E n \in 1..MaxBlocks, common \in 1..MaxDim :
          \E shapes \in BlockShapes(n, IF class = "HStack" THEN 1 ELSE 0, common) :
            inp = [class |-> class, op |-> HStack_init(class, format, "float64"),
                   block |-> [k \in 1..n |->
                        SparseFromDense_perform(IF k % 2 = 1 THEN "csr" ELSE "csc",
                            DenseMat(shapes[k][1], shapes[k][2], k % (MaxSeed + 1)),
                            shapes[k])]]
       \/ \E x \in IndexedMatrices, n \in 0..MaxIdx :
          \E indices \in IndexVectors(n, x.shape[1]) :
            inp = [class |-> "GetItemList", x |-> x, indices |-> indices]
       \/ \E a \in CSMGradInputs, v \in {"same", "longer", "shorter"} :
            inp = [class |-> "CSMGrad", a |-> WithDataLength(a, v)]
    /\ loc = <<>>
    /\ out = <<>>
    /\ err = NoErr

\* the shapes of the inputs of the node
InputShapes ==
    CASE inp.class = "SpSum" -> <<inp.x.shape>>
      [] inp.class \in {"HStack", "VStack"} -> [k \in 1..Len(inp.block) |-> inp.block[k].shape]
      [] inp.class = "GetItemList" -> <<inp.x.shape, <<Len(inp.indices)>>>>
      [] inp.class = "CSMGrad" ->
            <<<<Len(inp.a.x_data)>>, <<Len(inp.a.x_indices)>>, <<Len(inp.a.x_indptr)>>,
              <<Len(inp.a.x_shape)>>, <<Len(inp.a.g_data)>>, <<Len(inp.a.g_indices)>>,
              <<Len(inp.a.g_indptr)>>, <<Len(inp.a.g_shape)>>>>

\* the shape feature asks the operator for the shape of its output
InferShape ==
    /\ pc = "start"
    /\ loc' = CASE inp.class = "SpSum" -> SpSum_infer_shape(inp.op, InputShapes)
                [] inp.class \in {"HStack", "VStack"} -> HStack_infer_shape(inp.op, InputShapes)
                [] inp.class = "GetItemList" -> GetItemList_infer_shape(InputShapes)
                [] inp.class = "CSMGrad" -> CSMGrad_infer_shape(InputShapes)
    /\ pc' = "inferred"
    /\ UNCHANGED <<inp, out, err>>

\* evaluation of the node; out is the shape of the value produced
ShapePerform ==
    /\ pc = "inferred"
    /\ \/ /\ inp.class = "SpSum"
          /\ out' = <<IF inp.op.axis = "None" THEN <<>>
                      ELSE <<Len(SpSum_perform(inp.op, inp.x))>>>>
          /\ err' = NoErr
       \/ /\ inp.class \in {"HStack", "VStack"}
          /\ out' = <<HStack_perform(inp.op, inp.block).shape>>
          /\ err' = NoErr
       \/ /\ inp.class = "GetItemList"
          /\ LET r == GetItemList_perform(inp.x, inp.indices)
             IN  /\ out' = IF r.err = NoErr
                           THEN <<<<Len(r.val[1].rows), r.val[1].shape[2]>>>> ELSE <<>>
                 /\ err' = r.err
       \/ /\ inp.class = "CSMGrad"
          /\ LET r == CSMGrad_perform(inp.a)
             IN  /\ out' = IF r.err = NoErr THEN <<<<Len(r.val[1])>>>> ELSE <<>>
                 /\ err' = r.err
    /\ pc' = IF err' = NoErr THEN "evaluated" ELSE "failed"
    /\ UNCHANGED <<inp, loc>>

NextShape == InferShape \/ ShapePerform

SpecShape == InitShape /\ [][NextShape]_vars

\* C30 as stated: for SpSum, HStack, VStack, GetItemList and CSMGrad, on
\* every input for which evaluation succeeds, the shape infer_shape returns
\* equals the shape of the value perform produces.
C30_InferredShape == (pc = "evaluated") => loc[1] = out[1]

\* C30, the part that holds: the inferred shape is the shape of the value
\* for SpSum, HStack, VStack and GetItemList, and for CSMGrad when x_data
\* and x_indices have one length, whatever the gradient stores.
C30_InferredShapeOfMatrixParts ==
    (/\ pc = "evaluated"
     /\ inp.class = "CSMGrad" => Len(inp.a.x_data) = Len(inp.a.x_indices)) =>
        loc[1] = out[1]

\* CSMGrad evaluated on an x_data one element longer than x_indices: the
\* value has the length of x_data, the inferred shape that of x_indices
C30_WitnessCSMGrad ==
    /\ pc = "evaluated"
    /\ inp.class = "CSMGrad"
    /\ Len(inp.a.x_data) = Len(inp.a.x_indices) + 1
    /\ out[1] = <<Len(inp.a.x_data)>>
    /\ loc[1] = <<Len(inp.a.x_indices)>>

\* CSMGrad evaluated on the parts of a matrix and a gradient that stores
\* more entries: the inferred shape is the shape of the value
C30_WitnessGradientPattern ==
    /\ pc = "evaluated"
    /\ inp.class = "CSMGrad"
    /\ Len(inp.a.x_data) = Len(inp.a.x_indices)
    /\ Len(inp.a.g_data) > Len(inp.a.x_data)
    /\ loc[1] = out[1]
    /\ out[1] = <<Len(inp.a.x_data)>>

====
